---- MODULE Spec2Model ----
(***************************************************************************)
(* A model of the BLE man-in-the-middle relay.                             *)
(*                                                                         *)
(* Two programs of the repository are modelled; a run is a run of one of    *)
(* them (the variable program, chosen in Init):                            *)
(*                                                                         *)
(*   "proxy"   MITMProxy (src/mitm_proxy.py): the central-side client, the *)
(*             two asyncio queues and the forwarding loops.                *)
(*   "fake"    FakeOAT1040Peripheral (src/fake_oat1040_bluez.py): the      *)
(*             BlueZ GATT server, its forwarding tasks and its main loop.  *)
(*                                                                         *)
(* A run exercises one direction of the relay (the variable scenario,      *)
(* chosen in Init): the central's writes, or the target's notifications;   *)
(* or, for the fake, the phone's calls on the GATT server (reads, writes   *)
(* and subscriptions together).                                            *)
(*                                                                         *)
(* asyncio runs one callback at a time and keeps its ready callbacks in a  *)
(* FIFO: every action below is the code between two suspension points of   *)
(* one task (or one synchronous callback), and tasks created one after the *)
(* other start in that order.                                              *)
(***************************************************************************)
EXTENDS Integers, Sequences, FiniteSets, TLC

\* Bounds of the model: how many central writes and target notifications the
\* environment produces in one run.
MaxWrites == 2
MaxNotifs == 2

\* How many times stop() is called in one run.
MaxStops == 2

\* Payloads (byte strings, written in hex), and what a hook may return in
\* place of one.
Bytes == {"07000000000000000000", "1c"}
HookValues == {"1c"}

\* The GATT table of the real peripheral, as bleak's client.services yields it:
\* a sequence of services, each a sequence of characteristics.
TargetServices ==
    << << [uuid |-> "ffd1", properties |-> {"write", "write-without-response"}],
          [uuid |-> "fff1", properties |-> {"write"}] >>,
       << [uuid |-> "fea1", properties |-> {"notify"}],
          [uuid |-> "33f2", properties |-> {"indicate", "read"}],
          [uuid |-> "2a00", properties |-> {"read"}] >> >>

\* What the target sends: each notifying characteristic with its payload, and
\* fea1 also with a payload that is not its initial value on the server.
Notifications ==
    { << "fea1", "07000000000000000000" >>, << "33f2", "1c" >>, << "fea1", "1c" >> }

\* The uuids a central may write to: the target's, and one the target lacks.
WriteUuids == {"ffd1", "fff1", "2a00", "beef"}

VARIABLES
    program,                \* which program runs: "proxy", "fake" or "skeleton"
    scenario,               \* what the environment drives: "write", "notify",
                            \* "server" (the phone's calls on the fake's GATT server)
                            \* or "relay" (both directions of the proxy at once)
    \* ---- MITMProxy (src/mitm_proxy.py)
    config,                 \* MITMProxyConfig: which options and hooks are set
    phase,                  \* where start()/stop() stand
    running,                \* self._running
    periph_client,          \* self._periph_client: "None" or "client"
    is_connected,           \* client.is_connected
    connect_log,            \* history of _connect_peripheral: how client.connect() ended
                            \* and how the disconnect() of its except branch ended
    emulator,               \* self._emulator: "None", "started" or "not_started"
    services,               \* self._services: the service keys, and per service
                            \* and characteristic uuid the properties kept
    notifiable_chars,       \* self._notifiable_chars
    writable_chars,         \* self._writable_chars
    subscribed_chars,       \* self._subscribed_chars
    to_subscribe,           \* what the loop of _subscribe_to_notifications has left
    failed_subs,            \* history: the uuids whose start_notify raised
    stop_log,               \* history: how many stop() calls were made, how the
                            \* teardown steps of the last one went, and what the
                            \* first one left when it ended
    periph_to_emulator_q,   \* self._periph_to_emulator_q
    emulator_to_periph_q,   \* self._emulator_to_periph_q
    put_tasks,              \* the write_to_peripheral tasks created and not yet run
    write_loop,             \* the _periph_write_loop task: its position and item
    forward_loop,           \* the _periph_forward_loop task: its position and item
    forward_acct,           \* history: the task_done() calls of the forward loop, and
                            \* how the loop's body was left when it was cancelled
    emulator_loop,          \* the _emulator_forward_loop task: its position
    gatt_calls,             \* the write_gatt_char calls made, in order
    emulator_calls,         \* the emulator.notify_characteristic calls made, in order
    writes,                 \* history: the central writes received, in order
    notifs,                 \* history: the target notifications received, in order
    \* ---- FakeOAT1040Peripheral (src/fake_oat1040_bluez.py)
    target_device,          \* self.target_device is set (--target)
    main,                   \* where main() stands
    central_client,         \* self.central_client: "None" or "client"
    central_connected,      \* central_client.is_connected
    target_subs,            \* the target uuids the current client has a handler for
    sub_left,               \* what the subscription loop of connect_to_target has left
    connect_result,         \* history: how the last client.connect() of connect_to_target went
    attempted,              \* history: the uuids the current client tried to subscribe to
    lost_subs,              \* history: the uuids that were subscribed when a link dropped
    chars,                  \* per GattCharacteristic: _notifying, _value, _client_connected
    connect_events,         \* how many times _phone_connected was called
    last_call,              \* history: per characteristic, whether the last StartNotify
                            \* or StopNotify call, if any, was StartNotify
    forward_tasks,          \* the forward_write tasks created and not yet run
    notify_tasks,           \* the forward_notification coroutines scheduled and not yet run
    push_calls,             \* the push_notify calls made, in order
    value_signals,          \* the PropertiesChanged({"Value": ...}) calls made, in order
    tick,                   \* main()'s loop counter i, modulo 5
    agent_reg,              \* the PairingAgent at BlueZ: "none", "registered" (as the
                            \* default agent) or "failed" (the registration raised)
    agent_last,             \* history: the last callback of BlueZ on the PairingAgent
    \* ---- the skeleton MITMProxy (src/src/mitm_proxy.py)
    skel                    \* its state, in one record
                            \* (the device, which is only logged, is not kept) and
                            \* how it ended

\* Groups of variables, for the UNCHANGED clauses.
conn_vars == << periph_client, is_connected, connect_log, services, notifiable_chars, writable_chars,
                subscribed_chars, to_subscribe, failed_subs >>
write_vars == << emulator_to_periph_q, put_tasks, write_loop, gatt_calls, writes >>
notify_vars == << periph_to_emulator_q, forward_loop, forward_acct, emulator_calls,
                 notifs >>
life_vars == << phase, running, emulator, emulator_loop, stop_log >>

proxy_vars == << config, conn_vars, write_vars, notify_vars, life_vars >>

fake_conn == << central_client, central_connected, target_subs, sub_left,
                connect_result, attempted, lost_subs >>
fake_server == << chars, connect_events, last_call, push_calls, value_signals >>
fake_vars == << target_device, main, fake_conn, fake_server, forward_tasks,
                notify_tasks, tick, agent_reg, agent_last >>

vars == << program, scenario, proxy_vars, fake_vars, skel >>

----------------------------------------------------------------------------
\* Helpers

Range(s) == { s[i] : i \in 1..Len(s) }

\* How many entries of the sequence s satisfy id = i.
CountId(s, i) == Cardinality({ k \in 1..Len(s) : s[k].id = i })

\* What a hook call can do: return None, return a replacement, or raise.
HookOutcomes ==
    { [kind |-> "none", val |-> ""], [kind |-> "raise", val |-> ""] }
        \cup { [kind |-> "value", val |-> b] : b \in HookValues }

NoHook == [kind |-> "nohook", val |-> ""]

\* The outcomes of the call of a hook that is, or is not, configured.
HookCall(hook) == IF hook THEN HookOutcomes ELSE {NoHook}

\* A variant of ApplyHook without the `is not None` test: whatever the hook
\* returns replaces the payload.
ApplyHookUnchecked(data, outcome) ==
    IF outcome.kind \in {"value", "none"} THEN outcome.val ELSE data

\* The payload after the hook: replaced only by a returned non-None value; a
\* hook that raises is logged and the payload is kept.
ApplyHook(data, outcome) ==
    IF outcome.kind = "value" THEN outcome.val ELSE data

\* 'notify' in properties or 'indicate' in properties
IsNotifiable(properties) == "notify" \in properties \/ "indicate" \in properties

\* 'write' in properties or 'write-without-response' in properties
IsWritable(properties) ==
    "write" \in properties \/ "write-without-response" \in properties

ServiceChars == UNION { Range(TargetServices[i]) : i \in DOMAIN TargetServices }

\* _discover_services: the uuids it adds to the notifiable and writable sets.
DiscoveredNotifiable == { c.uuid : c \in { d \in ServiceChars : IsNotifiable(d.properties) } }
DiscoveredWritable == { c.uuid : c \in { d \in ServiceChars : IsWritable(d.properties) } }

\* What _discover_services reads and writes of the proxy.
Discovered ==
    [services |-> services, notifiable |-> notifiable_chars, writable |-> writable_chars]

\* A variant of DiscoverChar that takes a uuid it finds in the notifiable set
\* out of it.
DiscoverCharToggle(st, i, c) ==
    [services |-> [st.services EXCEPT !.chars =
                      { e \in @ : ~(e.service = i /\ e.uuid = c.uuid) }
                          \cup {[service |-> i, uuid |-> c.uuid,
                                 properties |-> c.properties]}],
     notifiable |-> IF IsNotifiable(c.properties)
                    THEN (IF c.uuid \in st.notifiable THEN st.notifiable \ {c.uuid}
                          ELSE st.notifiable \cup {c.uuid})
                    ELSE st.notifiable,
     writable |-> IF IsWritable(c.properties) THEN st.writable \cup {c.uuid}
                  ELSE st.writable]

\* The body of the inner loop of _discover_services for the characteristic c
\* of the i-th service: the entry of c in the service's dict is assigned, and
\* its uuid is added to the notifiable and the writable set.
DiscoverChar(st, i, c) ==
    [services |-> [st.services EXCEPT !.chars =
                      { e \in @ : ~(e.service = i /\ e.uuid = c.uuid) }
                          \cup {[service |-> i, uuid |-> c.uuid,
                                 properties |-> c.properties]}],
     notifiable |-> IF IsNotifiable(c.properties) THEN st.notifiable \cup {c.uuid}
                    ELSE st.notifiable,
     writable |-> IF IsWritable(c.properties) THEN st.writable \cup {c.uuid}
                  ELSE st.writable]

RECURSIVE DiscoverChars(_, _, _)
DiscoverChars(cs, st, i) ==
    IF cs = << >> THEN st
    ELSE DiscoverChars(Tail(cs), DiscoverChar(st, i, Head(cs)), i)

\* The outer loop of _discover_services, from the i-th service on: the entry of
\* the service is assigned anew (with no characteristics), then filled.
RECURSIVE DiscoverFrom(_, _, _)
DiscoverFrom(svcs, st, i) ==
    IF svcs = << >> THEN st
    ELSE LET fresh == [st EXCEPT !.services =
                          [keys |-> @.keys \cup {i},
                           chars |-> { e \in @.chars : e.service # i }]]
         IN DiscoverFrom(Tail(svcs), DiscoverChars(Head(svcs), fresh, i), i + 1)

\* _discover_services on the state st, with the services of the target.
DiscoverServices(st) == DiscoverFrom(TargetServices, st, 1)

\* How many central writes and target notifications the run may still see.
WriteBudget ==
    IF scenario = "write" THEN MaxWrites
    ELSE IF scenario \in {"server", "relay"} THEN MaxWrites - 1 ELSE 0
NotifyBudget == IF scenario \in {"notify", "relay"} THEN MaxNotifs ELSE 0

\* How many calls of stop() the run may still see.
StopBudget == IF scenario = "relay" THEN MaxStops - 1 ELSE MaxStops

\* A variant of CreateTask that schedules the coroutine twice.
CreateTaskTwice(tasks, item) == Append(Append(tasks, item), item)

\* asyncio.create_task(coro), asyncio.run_coroutine_threadsafe(coro, loop): the
\* new task goes to the end of the loop's ready queue.
CreateTask(tasks, item) == Append(tasks, item)

\* A central write, as the history keeps it: forwards counts the forwards made
\* for it (queue items put by the proxy, forward_write tasks created by the fake),
\* dropped says that forward_write found the link down and gave the write up,
\* result how the call that delivered the write ended for its caller (neither
\* _on_emulator_write nor GattCharacteristic.WriteValue has a raise).
NewWrite(uuid, data) ==
    [uuid |-> uuid, data |-> data, hook |-> NoHook, hook_calls |-> 0, forwards |-> 0,
     dropped |-> FALSE, result |-> "returned"]

\* Variants of QueuePut: one that enqueues the item twice, one that puts it at
\* the front of the queue.
QueuePutTwice(q, item) == Append(Append(q, item), item)

QueuePutFront(q, item) == << item >> \o q

\* asyncio.Queue.put / put_nowait on a queue made with no maxsize: the item is
\* appended, whatever the length.
QueuePut(q, item) == Append(q, item)

\* The lookup of _periph_write_loop: properties = None, then for each service,
\* for each characteristic, on a match take its properties and break (the
\* inner loop only).
NotFound == [found |-> FALSE, properties |-> {}]

RECURSIVE InnerLookup(_, _, _)
InnerLookup(cs, uuid, properties) ==
    IF cs = << >> THEN properties
    ELSE IF Head(cs).uuid = uuid
         THEN [found |-> TRUE, properties |-> Head(cs).properties]
         ELSE InnerLookup(Tail(cs), uuid, properties)

RECURSIVE OuterLookup(_, _, _)
OuterLookup(svcs, uuid, properties) ==
    IF svcs = << >> THEN properties
    ELSE OuterLookup(Tail(svcs), uuid, InnerLookup(Head(svcs), uuid, properties))

LookupProperties(uuid) == OuterLookup(TargetServices, uuid, NotFound)

\* A variant of WriteDecision that tests 'write' first: the acknowledged write
\* is preferred when both are advertised.
WriteDecisionPreferAck(uuid) ==
    LET p == LookupProperties(uuid) IN
    IF p.found /\ p.properties # {}
    THEN IF "write" \in p.properties
         THEN [call |-> TRUE, response |-> TRUE]
         ELSE IF "write-without-response" \in p.properties
              THEN [call |-> TRUE, response |-> FALSE]
              ELSE [call |-> FALSE, response |-> FALSE]
    ELSE [call |-> TRUE, response |-> FALSE]

\* A variant of WriteDecision that has no `else: continue` branch: a
\* characteristic with neither write property is written without response.
WriteDecisionNoContinue(uuid) ==
    LET p == LookupProperties(uuid) IN
    IF p.found /\ p.properties # {}
    THEN IF "write-without-response" \in p.properties
         THEN [call |-> TRUE, response |-> FALSE]
         ELSE IF "write" \in p.properties
              THEN [call |-> TRUE, response |-> TRUE]
              ELSE [call |-> TRUE, response |-> FALSE]
    ELSE [call |-> TRUE, response |-> FALSE]

\* A variant of WriteDecision without the `elif 'write' in properties` branch.
WriteDecisionNoElif(uuid) ==
    LET p == LookupProperties(uuid) IN
    IF p.found /\ p.properties # {}
    THEN IF "write-without-response" \in p.properties
         THEN [call |-> TRUE, response |-> FALSE]
         ELSE [call |-> FALSE, response |-> FALSE]
    ELSE [call |-> TRUE, response |-> FALSE]

\* What _periph_write_loop does with a dequeued write to uuid: whether it calls
\* write_gatt_char, and with which response argument.
WriteDecision(uuid) ==
    LET p == LookupProperties(uuid) IN
    IF p.found /\ p.properties # {}
    THEN IF "write-without-response" \in p.properties
         THEN [call |-> TRUE, response |-> FALSE]
         ELSE IF "write" \in p.properties
              THEN [call |-> TRUE, response |-> TRUE]
              ELSE [call |-> FALSE, response |-> FALSE]
    ELSE [call |-> TRUE, response |-> FALSE]

NoItem == [id |-> 0, uuid |-> "", data |-> ""]

\* The accounting of the forward loop before the loop has run.
NoAccount == [calls |-> 0, raised |-> FALSE, end |-> "none"]

\* asyncio.Queue.task_done() on a queue that has seen `puts` put calls: it
\* raises ValueError when no put is left unfinished, and counts one off else.
TaskDone(acct, puts) ==
    [acct EXCEPT !.calls = @ + 1,
                 !.raised = puts - acct.calls <= 0]

\* CancelledError raised at an await in the body of _periph_forward_loop:
\* `except asyncio.CancelledError: break`, and on the way out the finally
\* calls task_done(), whether the turn had dequeued an item or not. The loop
\* ends by the break, or by the ValueError of task_done.
CancelledInBody(acct, puts) ==
    [TaskDone(acct, puts) EXCEPT !.end = IF TaskDone(acct, puts).raised
                                         THEN "error" ELSE "break"]

\* `while self._running:` at the top of a loop: wait on the queue, or leave.
LoopTop == IF running THEN "get" ELSE "done"

\* A variant of AfterCall in which an exception of the call ends the loop.
AfterCallCrash(ok) == IF ok THEN LoopTop ELSE "done"

\* Where a forwarding loop stands after its sink call (write_gatt_char,
\* notify_characteristic) returned (ok) or raised: the exception is caught and
\* logged inside the loop body, so the loop is at its top in both cases.
AfterCall(ok) == LoopTop

\* What a stop() call leaves of the proxy: _running, _emulator, _periph_client
\* and the tasks of self._tasks.
StopState(r, e, f, l) ==
    [running |-> r, emulator |-> e, client |-> periph_client, forward_loop |-> f,
     emulator_loop |-> l]

NoStopState ==
    [running |-> TRUE, emulator |-> "", client |-> "", forward_loop |-> "",
     emulator_loop |-> ""]

\* The history after a step of stop(): when the step ends the first stop()
\* call, what the call leaves is kept.
LogStop(log, ended, st) ==
    IF ended /\ log.calls = 1 THEN [log EXCEPT !.first = st] ELSE log

EMULATOR_AVAILABLE == TRUE

----------------------------------------------------------------------------
\* MITMProxy

ProxyConfigs ==
    [peripheral_address : BOOLEAN, auto_subscribe : BOOLEAN,
     enable_emulator : BOOLEAN, on_periph_notify : BOOLEAN,
     on_central_write : BOOLEAN]

ProxyInit ==
    /\ config \in ProxyConfigs
    /\ phase = "new"
    /\ running = FALSE
    /\ periph_client = "None"
    /\ is_connected = FALSE
    /\ connect_log = [connect |-> "none", disconnect |-> "none"]
    /\ emulator = "None"
    /\ services = [keys |-> {}, chars |-> {}]
    /\ notifiable_chars = {}
    /\ writable_chars = {}
    /\ subscribed_chars = {}
    /\ to_subscribe = {}
    /\ failed_subs = {}
    /\ stop_log = [calls |-> 0, emulator_stop |-> "none", disconnect |-> "none",
                   first |-> NoStopState]
    /\ periph_to_emulator_q = << >>
    /\ emulator_to_periph_q = << >>
    /\ put_tasks = << >>
    /\ write_loop = [pc |-> "none", item |-> NoItem]
    /\ forward_loop = [pc |-> "none", item |-> NoItem]
    /\ forward_acct = NoAccount
    /\ emulator_loop = "none"
    /\ gatt_calls = << >>
    /\ emulator_calls = << >>
    /\ writes = << >>
    /\ notifs = << >>

\* A variant of Start that raises when no peripheral address is configured.
StartRequiresAddress ==
    /\ program = "proxy"
    /\ phase = "new"
    /\ running' = config.peripheral_address
    /\ phase' = IF config.peripheral_address THEN "connecting" ELSE "failed"
    /\ UNCHANGED << program, scenario, skel, fake_vars, config, conn_vars, write_vars, notify_vars, emulator,
                    emulator_loop, stop_log >>

\* start() up to its first suspension: the connect to the peripheral, or, with
\* no peripheral address, the emulator.
Start ==
    /\ program = "proxy"
    /\ phase = "new"
    /\ running' = TRUE
    /\ phase' = IF config.peripheral_address THEN "connecting" ELSE "emulator"
    /\ UNCHANGED << program, scenario, skel, fake_vars, config, conn_vars, write_vars, notify_vars, emulator,
                    emulator_loop, stop_log >>

\* _connect_peripheral: client.connect() returned; _discover_services runs, then
\* the subscription loop starts, or (nothing to subscribe to) the write loop task
\* is created.
ConnectOk ==
    /\ phase = "connecting"
    /\ periph_client' = "client"
    /\ is_connected' = TRUE
    /\ connect_log' = [connect_log EXCEPT !.connect = "ok"]
    /\ LET st == DiscoverServices(Discovered) IN
           /\ services' = st.services
           /\ notifiable_chars' = st.notifiable
           /\ writable_chars' = st.writable
    /\ subscribed_chars' = subscribed_chars
    /\ failed_subs' = failed_subs
    /\ IF config.auto_subscribe /\ notifiable_chars' # {}
       THEN /\ to_subscribe' = notifiable_chars'
            /\ phase' = "subscribing"
            /\ UNCHANGED write_loop
       ELSE /\ to_subscribe' = {}
            /\ phase' = "emulator"
            /\ write_loop' = [pc |-> "created", item |-> NoItem]
    /\ UNCHANGED << program, scenario, skel, fake_vars, config, emulator_to_periph_q, put_tasks, gatt_calls,
                    writes, notify_vars, running, emulator, emulator_loop, stop_log >>

\* client.connect() raised: _connect_peripheral drops the client and re-raises,
\* start() clears _running and re-raises.
ConnectFail ==
    /\ phase = "connecting"
    /\ periph_client' = "None"
    /\ connect_log' = [connect_log EXCEPT !.connect = "raised"]
    /\ running' = FALSE
    /\ phase' = "failed"
    /\ UNCHANGED << program, scenario, skel, fake_vars, config, is_connected, services, notifiable_chars, writable_chars,
                    subscribed_chars, to_subscribe, failed_subs, write_vars, notify_vars,
                    emulator, emulator_loop, stop_log >>

\* A variant of DiscoverFail whose except branch does not disconnect the client.
DiscoverFailNoDisconnect(ok) ==
    /\ phase = "connecting"
    /\ periph_client' = "None"
    /\ is_connected' = TRUE
    /\ connect_log' = [connect_log EXCEPT !.connect = "ok"]
    /\ running' = FALSE
    /\ phase' = "failed"
    /\ UNCHANGED << program, scenario, skel, fake_vars, config, services, notifiable_chars, writable_chars,
                    subscribed_chars, to_subscribe, failed_subs, write_vars, notify_vars,
                    emulator, emulator_loop, stop_log >>

\* client.connect() returned and _discover_services raised at its read of
\* client.services, before anything was recorded: the except branch of
\* _connect_peripheral finds the client connected and awaits its disconnect(),
\* which returns (ok) or raises (passed over), drops the client and re-raises;
\* start() clears _running and re-raises.
DiscoverFail(ok) ==
    /\ phase = "connecting"
    /\ periph_client' = "None"
    /\ is_connected' = ~ok
    /\ connect_log' = [connect |-> "ok", disconnect |-> IF ok THEN "ok" ELSE "raised"]
    /\ running' = FALSE
    /\ phase' = "failed"
    /\ UNCHANGED << program, scenario, skel, fake_vars, config, services, notifiable_chars, writable_chars,
                    subscribed_chars, to_subscribe, failed_subs, write_vars, notify_vars,
                    emulator, emulator_loop, stop_log >>

\* A variant of Subscribe in which an exception of start_notify leaves the loop:
\* the characteristics that are left are not tried.
SubscribeAbort(uuid, ok) ==
    /\ phase = "subscribing"
    /\ uuid \in to_subscribe
    /\ to_subscribe' = IF ok THEN to_subscribe \ {uuid} ELSE {}
    /\ subscribed_chars' = IF ok THEN subscribed_chars \cup {uuid} ELSE subscribed_chars
    /\ failed_subs' = IF ok THEN failed_subs ELSE failed_subs \cup {uuid}
    /\ IF to_subscribe' = {}
       THEN /\ phase' = "emulator"
            /\ write_loop' = [pc |-> "created", item |-> NoItem]
       ELSE UNCHANGED << phase, write_loop >>
    /\ UNCHANGED << program, scenario, skel, fake_vars, config, periph_client, is_connected, connect_log, services, notifiable_chars,
                    writable_chars, emulator_to_periph_q, put_tasks, gatt_calls,
                    writes, notify_vars, running, emulator, emulator_loop, stop_log >>

\* One turn of the loop of _subscribe_to_notifications: start_notify(uuid)
\* returned (ok) or raised; after the last one the write loop task is created.
Subscribe(uuid, ok) ==
    /\ phase = "subscribing"
    /\ uuid \in to_subscribe
    /\ to_subscribe' = to_subscribe \ {uuid}
    /\ subscribed_chars' = IF ok THEN subscribed_chars \cup {uuid} ELSE subscribed_chars
    /\ failed_subs' = IF ok THEN failed_subs ELSE failed_subs \cup {uuid}
    /\ IF to_subscribe' = {}
       THEN /\ phase' = "emulator"
            /\ write_loop' = [pc |-> "created", item |-> NoItem]
       ELSE UNCHANGED << phase, write_loop >>
    /\ UNCHANGED << program, scenario, skel, fake_vars, config, periph_client, is_connected, connect_log, services, notifiable_chars,
                    writable_chars, emulator_to_periph_q, put_tasks, gatt_calls,
                    writes, notify_vars, running, emulator, emulator_loop, stop_log >>

\* A variant of GetSubscriptionStatus that reports as failed only the
\* characteristics whose start_notify raised.
GetSubscriptionStatusRaisedOnly ==
    [total_notifiable |-> Cardinality(notifiable_chars),
     successfully_subscribed |-> Cardinality(subscribed_chars),
     failed |-> Cardinality(failed_subs),
     subscribed_chars |-> subscribed_chars,
     failed_chars |-> failed_subs]

\* get_subscription_status(): the three counts and the two lists, the lists
\* (made from sets, in no particular order) as the sets of their elements.
GetSubscriptionStatus ==
    [total_notifiable |-> Cardinality(notifiable_chars),
     successfully_subscribed |-> Cardinality(subscribed_chars),
     failed |-> Cardinality(notifiable_chars \ subscribed_chars),
     subscribed_chars |-> subscribed_chars,
     failed_chars |-> notifiable_chars \ subscribed_chars]

\* The emulator part of start(): create_emulator and emulator.start(), which
\* returns True, returns False (BLEPeripheralEmulator.start catches its errors)
\* or raises; then the two loop tasks are created.
StartEmulator(outcome) ==
    /\ phase = "emulator"
    /\ IF config.enable_emulator /\ EMULATOR_AVAILABLE
       THEN emulator' = CASE outcome = "true" -> "started"
                          [] outcome = "false" -> "not_started"
                          [] OTHER -> "None"
       ELSE /\ outcome = "true"
            /\ emulator' = "None"
    /\ forward_loop' = [pc |-> "created", item |-> NoItem]
    /\ emulator_loop' = "created"
    /\ phase' = "started"
    /\ UNCHANGED << program, scenario, skel, fake_vars, config, conn_vars, write_vars, periph_to_emulator_q,
                    forward_acct, emulator_calls, notifs, running, stop_log >>

\* _on_emulator_write(char_uuid, data): a task running write_to_peripheral is
\* created.
OnEmulatorWrite(uuid, data) ==
    /\ emulator = "started"
    /\ phase \in {"started", "stop_emulator"}
    /\ Len(writes) < WriteBudget
    /\ writes' = Append(writes, NewWrite(uuid, data))
    /\ put_tasks' = CreateTask(put_tasks, [id |-> Len(writes) + 1, uuid |-> uuid,
                                           data |-> data])
    /\ UNCHANGED << program, scenario, skel, fake_vars, config, conn_vars, emulator_to_periph_q, write_loop,
                    gatt_calls, notify_vars, life_vars >>

\* The first (and only) step of a write_to_peripheral task: the put on the
\* unbounded queue returns at once.
WriteToPeripheral ==
    /\ put_tasks # << >>
    /\ emulator_to_periph_q' = QueuePut(emulator_to_periph_q, Head(put_tasks))
    /\ put_tasks' = Tail(put_tasks)
    /\ writes' = [writes EXCEPT ![Head(put_tasks).id].forwards =
                      @ + Len(emulator_to_periph_q') - Len(emulator_to_periph_q)]
    /\ UNCHANGED << program, scenario, skel, fake_vars, config, conn_vars, write_loop,
                    gatt_calls, notify_vars, life_vars >>

\* _periph_write_loop starts: it leaves at once with no client, else enters
\* its loop.
WriteLoopStart ==
    /\ write_loop.pc = "created"
    /\ write_loop' = [write_loop EXCEPT !.pc = IF periph_client = "None" THEN "done"
                                                ELSE LoopTop]
    /\ UNCHANGED << program, scenario, skel, fake_vars, config, conn_vars, emulator_to_periph_q, put_tasks,
                    gatt_calls, writes, notify_vars, life_vars >>

\* One turn of _periph_write_loop up to the await of write_gatt_char: the get,
\* the on_central_write hook, the lookup of the properties, and the call; or,
\* for a characteristic that is not writable, the `continue`.
WriteLoopGet(outcome) ==
    /\ write_loop.pc = "get"
    /\ emulator_to_periph_q # << >>
    /\ outcome \in HookCall(config.on_central_write)
    /\ LET item == Head(emulator_to_periph_q)
           data == ApplyHook(item.data, outcome)
           d == WriteDecision(item.uuid)
       IN /\ emulator_to_periph_q' = Tail(emulator_to_periph_q)
          /\ writes' = IF config.on_central_write
                       THEN [writes EXCEPT ![item.id].hook = outcome,
                                           ![item.id].hook_calls = @ + 1]
                       ELSE writes
          /\ IF d.call
             THEN /\ gatt_calls' = Append(gatt_calls,
                        [id |-> item.id, uuid |-> item.uuid, data |-> data,
                         response |-> d.response, returned |-> FALSE,
                         raised |-> FALSE])
                  /\ write_loop' = [pc |-> "write", item |-> item]
             ELSE /\ gatt_calls' = gatt_calls
                  /\ write_loop' = [pc |-> LoopTop, item |-> NoItem]
    /\ UNCHANGED << program, scenario, skel, fake_vars, config, conn_vars, put_tasks, notify_vars, life_vars >>

\* write_gatt_char returned (ok) or raised: `except Exception` logs the error,
\* and either way the loop goes on to its next turn.
WriteReturn(ok) ==
    /\ write_loop.pc = "write"
    /\ gatt_calls' = [gatt_calls EXCEPT ![Len(gatt_calls)].returned = TRUE,
                                        ![Len(gatt_calls)].raised = ~ok]
    /\ write_loop' = [pc |-> AfterCall(ok), item |-> NoItem]
    /\ UNCHANGED << program, scenario, skel, fake_vars, config, conn_vars, emulator_to_periph_q, put_tasks,
                    writes, notify_vars, life_vars >>

\* _on_peripheral_notification(char_uuid, sender, data), called by bleak for a
\* subscribed characteristic: the on_periph_notify hook, then put_nowait.
OnPeripheralNotification(uuid, data, outcome) ==
    /\ is_connected
    /\ uuid \in subscribed_chars
    /\ Len(notifs) < NotifyBudget
    /\ outcome \in HookCall(config.on_periph_notify)
    /\ notifs' = Append(notifs, [uuid |-> uuid, data |-> data, hook |-> outcome,
                                 hook_calls |-> IF config.on_periph_notify THEN 1 ELSE 0,
                                 queued |-> Len(periph_to_emulator_q)])
    /\ periph_to_emulator_q' =
           QueuePut(periph_to_emulator_q,
                    [id |-> Len(notifs) + 1, uuid |-> uuid,
                     data |-> ApplyHook(data, outcome)])
    /\ UNCHANGED << program, scenario, skel, fake_vars, config, conn_vars, write_vars, forward_loop, forward_acct,
                    emulator_calls, life_vars >>

\* _periph_forward_loop starts.
ForwardLoopStart ==
    /\ forward_loop.pc = "created"
    /\ forward_loop' = [forward_loop EXCEPT !.pc = LoopTop]
    /\ UNCHANGED << program, scenario, skel, fake_vars, config, conn_vars, write_vars, periph_to_emulator_q,
                    forward_acct, emulator_calls, notifs, life_vars >>

\* A variant of ForwardLoopGet that takes a notification only while no
\* write_gatt_char is in flight.
ForwardLoopGetAfterWrites ==
    /\ write_loop.pc # "write"
    /\ forward_loop.pc = "get"
    /\ periph_to_emulator_q # << >>
    /\ LET item == Head(periph_to_emulator_q)
       IN /\ periph_to_emulator_q' = Tail(periph_to_emulator_q)
          /\ IF emulator # "None"
             THEN /\ emulator_calls' =
                         Append(emulator_calls,
                                [id |-> item.id, uuid |-> item.uuid,
                                 data |-> item.data, raised |-> FALSE])
                  /\ forward_loop' = [pc |-> "notify", item |-> item]
                  /\ forward_acct' = forward_acct
             ELSE /\ emulator_calls' = emulator_calls
                  /\ forward_loop' = [pc |-> LoopTop, item |-> NoItem]
                  /\ forward_acct' = TaskDone(forward_acct, Len(notifs))
    /\ UNCHANGED << program, scenario, skel, fake_vars, config, conn_vars, write_vars, notifs, life_vars >>

\* One turn of _periph_forward_loop up to the await of notify_characteristic;
\* with no emulator the item is only logged and the turn ends with the
\* task_done() of its finally.
ForwardLoopGet ==
    /\ forward_loop.pc = "get"
    /\ periph_to_emulator_q # << >>
    /\ LET item == Head(periph_to_emulator_q)
       IN /\ periph_to_emulator_q' = Tail(periph_to_emulator_q)
          /\ IF emulator # "None"
             THEN /\ emulator_calls' =
                         Append(emulator_calls,
                                [id |-> item.id, uuid |-> item.uuid,
                                 data |-> item.data, raised |-> FALSE])
                  /\ forward_loop' = [pc |-> "notify", item |-> item]
                  /\ forward_acct' = forward_acct
             ELSE /\ emulator_calls' = emulator_calls
                  /\ forward_loop' = [pc |-> LoopTop, item |-> NoItem]
                  /\ forward_acct' = TaskDone(forward_acct, Len(notifs))
    /\ UNCHANGED << program, scenario, skel, fake_vars, config, conn_vars, write_vars, notifs, life_vars >>

\* notify_characteristic returned (ok) or raised (the error is logged):
\* task_done, and the next turn.
ForwardReturn(ok) ==
    /\ forward_loop.pc = "notify"
    /\ emulator_calls' = [emulator_calls EXCEPT ![Len(emulator_calls)].raised = ~ok]
    /\ forward_loop' = [pc |-> AfterCall(ok), item |-> NoItem]
    /\ forward_acct' = TaskDone(forward_acct, Len(notifs))
    /\ UNCHANGED << program, scenario, skel, fake_vars, config, conn_vars, write_vars, periph_to_emulator_q,
                    notifs, life_vars >>

\* _emulator_forward_loop: it only sleeps, until _running is cleared.
EmulatorLoopStep ==
    /\ emulator_loop \in {"created", "sleep"}
    /\ emulator_loop' = IF running THEN "sleep" ELSE "done"
    /\ UNCHANGED << program, scenario, skel, fake_vars, config, conn_vars, write_vars, notify_vars, phase,
                    running, emulator, stop_log >>

\* stop() up to its first suspension: _running is cleared and the tasks of
\* self._tasks (the forward loop and the emulator loop, not the write loop) are
\* cancelled; the forward loop, cancelled at one of its awaits, leaves its body
\* through `except CancelledError: break` and the finally. stop() may be called
\* again once a stop() has ended.
Stop ==
    /\ phase \in {"started", "stopped"}
    /\ stop_log.calls < StopBudget
    /\ running' = FALSE
    /\ forward_loop' = IF forward_loop.pc \in {"created", "get", "notify"}
                       THEN [pc |-> "cancelled", item |-> NoItem]
                       ELSE forward_loop
    /\ forward_acct' = IF forward_loop.pc \in {"get", "notify"}
                       THEN CancelledInBody(forward_acct, Len(notifs))
                       ELSE forward_acct
    /\ emulator_loop' = IF emulator_loop \in {"created", "sleep"}
                        THEN "cancelled" ELSE emulator_loop
    /\ phase' = IF emulator # "None" THEN "stop_emulator"
                ELSE IF periph_client # "None" THEN "stop_disconnect"
                ELSE "stopped"
    /\ stop_log' = LogStop([calls |-> stop_log.calls + 1,
                             emulator_stop |-> IF emulator # "None" THEN "due" ELSE "none",
                             disconnect |-> IF periph_client # "None" THEN "due"
                                            ELSE "none",
                             first |-> stop_log.first],
                            phase' = "stopped",
                            StopState(FALSE, emulator, forward_loop'.pc, emulator_loop'))
    /\ UNCHANGED << program, scenario, skel, fake_vars, config, conn_vars, write_vars, periph_to_emulator_q,
                    emulator_calls, notifs, emulator >>

\* A variant of StopEmulator in which an exception of emulator.stop() leaves
\* stop() at once.
StopEmulatorAbort(ok) ==
    /\ phase = "stop_emulator"
    /\ emulator' = "None"
    /\ phase' = IF ok /\ periph_client # "None" THEN "stop_disconnect" ELSE "stopped"
    /\ stop_log' = LogStop([stop_log EXCEPT !.emulator_stop =
                                                IF ok THEN "ok" ELSE "raised"],
                            phase' = "stopped",
                            StopState(running, "None", forward_loop.pc, emulator_loop))
    /\ UNCHANGED << program, scenario, skel, fake_vars, config, conn_vars, write_vars, notify_vars, running,
                    emulator_loop >>

\* stop(): emulator.stop() returned (ok) or raised (logged); self._emulator =
\* None either way, and stop() goes on to the disconnect.
StopEmulator(ok) ==
    /\ phase = "stop_emulator"
    /\ emulator' = "None"
    /\ phase' = IF periph_client # "None" THEN "stop_disconnect" ELSE "stopped"
    /\ stop_log' = LogStop([stop_log EXCEPT !.emulator_stop =
                                                IF ok THEN "ok" ELSE "raised"],
                            phase' = "stopped",
                            StopState(running, "None", forward_loop.pc, emulator_loop))
    /\ UNCHANGED << program, scenario, skel, fake_vars, config, conn_vars, write_vars, notify_vars, running,
                    emulator_loop >>

\* stop(): the client's disconnect() returned (ok) or raised (logged).
StopDisconnect(ok) ==
    /\ phase = "stop_disconnect"
    /\ is_connected' = IF ok THEN FALSE ELSE is_connected
    /\ phase' = "stopped"
    /\ stop_log' = LogStop([stop_log EXCEPT !.disconnect =
                                                IF ok THEN "ok" ELSE "raised"],
                            TRUE,
                            StopState(running, emulator, forward_loop.pc, emulator_loop))
    /\ UNCHANGED << program, scenario, skel, fake_vars, config, periph_client, connect_log, services, notifiable_chars, writable_chars,
                    subscribed_chars, to_subscribe, failed_subs, write_vars, notify_vars,
                    running, emulator, emulator_loop >>

----------------------------------------------------------------------------
\* FakeOAT1040Peripheral

\* The devices and passkeys BlueZ may name in a callback on the agent.
Devices == {"dev_phone", "dev_other"}
Passkeys == {0, 123456}

NoAgentCall == [method |-> "none", passkey |-> 0, result |-> "none"]

\* self._app.characteristics, as start() builds it.
FakeCharacteristics ==
    << [uuid |-> "ffd1", flags |-> {"write", "write-without-response"},
        initial_value |-> "", on_write |-> TRUE],
       [uuid |-> "fea1", flags |-> {"notify"},
        initial_value |-> "07000000000000000000", on_write |-> FALSE],
       [uuid |-> "33f2", flags |-> {"notify"},
        initial_value |-> "1c", on_write |-> FALSE] >>

FakeUuids == { c.uuid : c \in Range(FakeCharacteristics) }

FakeChar(uuid) == CHOOSE c \in Range(FakeCharacteristics) : c.uuid = uuid

\* The notifiable characteristics of the target, in the order in which
\* connect_to_target walks the services.
RECURSIVE NotifiableOf(_)
NotifiableOf(cs) ==
    IF cs = << >> THEN << >>
    ELSE (IF IsNotifiable(Head(cs).properties) THEN << Head(cs).uuid >> ELSE << >>)
             \o NotifiableOf(Tail(cs))

RECURSIVE NotifiableSeq(_)
NotifiableSeq(svcs) ==
    IF svcs = << >> THEN << >>
    ELSE NotifiableOf(Head(svcs)) \o NotifiableSeq(Tail(svcs))

\* GattCharacteristic.__init__
NewChar(c) == [notifying |-> FALSE, value |-> c.initial_value, client_connected |-> FALSE]

\* The state that push_notify reads and writes.
ServerState == [chars |-> chars, push_calls |-> push_calls, value_signals |-> value_signals]

\* A variant of PushNotify that returns before it sets the value when the
\* characteristic is not notifying.
PushNotifyValueWhenNotifying(st, uuid, data, id) ==
    [chars |-> IF st.chars[uuid].notifying
               THEN [st.chars EXCEPT ![uuid].value = data]
               ELSE st.chars,
     push_calls |-> Append(st.push_calls,
                           [id |-> id, uuid |-> uuid, data |-> data,
                            after_start |-> last_call[uuid]]),
     value_signals |-> IF st.chars[uuid].notifying
                       THEN Append(st.value_signals,
                                   [uuid |-> uuid, data |-> data,
                                    push |-> Len(st.push_calls) + 1])
                       ELSE st.value_signals]

\* A variant of PushNotify that emits the Value signal whether or not the
\* characteristic is notifying.
PushNotifyAlways(st, uuid, data, id) ==
    [chars |-> [st.chars EXCEPT ![uuid].value = data],
     push_calls |-> Append(st.push_calls,
                           [id |-> id, uuid |-> uuid, data |-> data,
                            after_start |-> last_call[uuid]]),
     value_signals |-> Append(st.value_signals,
                              [uuid |-> uuid, data |-> data,
                               push |-> Len(st.push_calls) + 1])]

\* GattCharacteristic.push_notify(data) on the characteristic uuid: the value is
\* set, and a Value signal is emitted only while notifying. id names the
\* target notification that is forwarded (0: none).
PushNotify(st, uuid, data, id) ==
    [chars |-> [st.chars EXCEPT ![uuid].value = data],
     push_calls |-> Append(st.push_calls,
                           [id |-> id, uuid |-> uuid, data |-> data,
                            after_start |-> last_call[uuid]]),
     value_signals |-> IF st.chars[uuid].notifying
                       THEN Append(st.value_signals,
                                   [uuid |-> uuid, data |-> data,
                                    push |-> Len(st.push_calls) + 1])
                       ELSE st.value_signals]

\* FakeOAT1040Peripheral.notify_characteristic(uuid, data): self._chars.get(uuid).
NotifyCharacteristic(st, uuid, data) ==
    IF uuid \in FakeUuids THEN PushNotify(st, uuid, data, 0) ELSE st

\* forward_notification(source_uuid, data): the first characteristic of
\* self._app.characteristics with that uuid gets push_notify.
RECURSIVE ForwardTo(_, _, _, _)
ForwardTo(cs, st, item, found) ==
    IF cs = << >> \/ found THEN st
    ELSE IF Head(cs).uuid = item.uuid
         THEN ForwardTo(Tail(cs), PushNotify(st, item.uuid, item.data, item.id), item, TRUE)
         ELSE ForwardTo(Tail(cs), st, item, found)

SetServer(st) ==
    /\ chars' = st.chars
    /\ push_calls' = st.push_calls
    /\ value_signals' = st.value_signals

FakeInit ==
    /\ target_device \in BOOLEAN
    /\ main = "new"
    /\ central_client = "None"
    /\ central_connected = FALSE
    /\ target_subs = {}
    /\ sub_left = << >>
    /\ connect_result = "none"
    /\ attempted = {}
    /\ lost_subs = {}
    /\ chars = [u \in FakeUuids |-> NewChar(FakeChar(u))]
    /\ connect_events = 0
    /\ last_call = [u \in FakeUuids |-> FALSE]
    /\ forward_tasks = << >>
    /\ notify_tasks = << >>
    /\ push_calls = << >>
    /\ value_signals = << >>
    /\ tick = 0
    /\ agent_reg = "none"
    /\ agent_last = NoAgentCall

\* The phone can reach the GATT server once start() has registered it.
Serving == main \in {"connecting", "subscribing", "sleep"}

\* connect_to_target up to client.connect(): a new BleakClient replaces the old.
BeginConnect ==
    /\ central_client' = "client"
    /\ central_connected' = FALSE
    /\ target_subs' = {}
    /\ sub_left' = << >>
    /\ connect_result' = "pending"
    /\ attempted' = {}
    /\ lost_subs' = lost_subs
    /\ main' = "connecting"

\* The outcomes of registering the agent at BlueZ; the failure is explored in
\* the runs that are about the phone's side.
RegOutcomes == IF scenario = "server" THEN BOOLEAN ELSE {TRUE}

\* FakeOAT1040Peripheral.start() returned (ok) or raised; main() then calls
\* connect_to_target (with a target) or enters its loop. On its way start()
\* registers the pairing agent as the default agent (reg), or logs that it
\* could not and goes on.
FakeStart(ok, reg) ==
    /\ program = "fake"
    /\ main = "new"
    /\ agent_reg' = IF reg THEN "registered" ELSE "failed"
    /\ IF ~ok
       THEN main' = "exited" /\ UNCHANGED fake_conn
       ELSE IF target_device
            THEN BeginConnect
            ELSE main' = "sleep" /\ UNCHANGED fake_conn
    /\ UNCHANGED << program, scenario, skel, proxy_vars, target_device, agent_last, fake_server, forward_tasks,
                    notify_tasks, tick >>

\* A variant of FakeConnect that subscribes only to the uuids it has not
\* subscribed to before.
FakeConnectSkipKnown(ok) ==
    /\ main = "connecting"
    /\ IF ok
       THEN /\ central_connected' = TRUE
            /\ sub_left' = SelectSeq(NotifiableSeq(TargetServices),
                                     LAMBDA u : u \notin lost_subs)
            /\ main' = IF sub_left' = << >> THEN "sleep" ELSE "subscribing"
       ELSE /\ main' = "sleep"
            /\ UNCHANGED << central_connected, sub_left >>
    /\ connect_result' = IF ok THEN "ok" ELSE "failed"
    /\ UNCHANGED << program, scenario, skel, proxy_vars, target_device, agent_reg, agent_last, central_client, target_subs,
                    attempted, lost_subs, fake_server, forward_tasks, notify_tasks, tick >>

\* A variant of FakeConnect in which a failed connect ends main().
FakeConnectFatal(ok) ==
    /\ main = "connecting"
    /\ IF ok
       THEN /\ central_connected' = TRUE
            /\ sub_left' = NotifiableSeq(TargetServices)
            /\ main' = IF sub_left' = << >> THEN "sleep" ELSE "subscribing"
       ELSE /\ main' = "exited"
            /\ UNCHANGED << central_connected, sub_left >>
    /\ connect_result' = IF ok THEN "ok" ELSE "failed"
    /\ UNCHANGED << program, scenario, skel, proxy_vars, target_device, agent_reg, agent_last, central_client, target_subs,
                    attempted, lost_subs, fake_server, forward_tasks, notify_tasks, tick >>

\* connect_to_target: client.connect() returned (ok), and the subscription loop
\* starts; or it raised, which connect_to_target logs and swallows.
FakeConnect(ok) ==
    /\ main = "connecting"
    /\ IF ok
       THEN /\ central_connected' = TRUE
            /\ sub_left' = NotifiableSeq(TargetServices)
            /\ main' = IF sub_left' = << >> THEN "sleep" ELSE "subscribing"
       ELSE /\ main' = "sleep"
            /\ UNCHANGED << central_connected, sub_left >>
    /\ connect_result' = IF ok THEN "ok" ELSE "failed"
    /\ UNCHANGED << program, scenario, skel, proxy_vars, target_device, agent_reg, agent_last, central_client, target_subs,
                    attempted, lost_subs, fake_server, forward_tasks, notify_tasks, tick >>

\* One turn of the subscription loop of connect_to_target: start_notify
\* returned (ok) or raised (logged).
FakeSubscribe(ok) ==
    /\ main = "subscribing"
    /\ ok => central_connected
    /\ target_subs' = IF ok THEN target_subs \cup {Head(sub_left)} ELSE target_subs
    /\ sub_left' = Tail(sub_left)
    /\ attempted' = attempted \cup {Head(sub_left)}
    /\ main' = IF sub_left' = << >> THEN "sleep" ELSE "subscribing"
    /\ UNCHANGED << program, scenario, skel, proxy_vars, target_device, agent_reg, agent_last, central_client,
                    central_connected, connect_result, lost_subs, fake_server,
                    forward_tasks, notify_tasks, tick >>

\* The link to the target is lost: the client is no longer connected, and the
\* handlers it held are dropped with the connection.
LinkLost ==
    /\ program = "fake"
    /\ central_connected
    /\ main \in {"subscribing", "sleep"}
    /\ central_connected' = FALSE
    /\ target_subs' = {}
    /\ lost_subs' = lost_subs \cup target_subs
    /\ UNCHANGED << program, scenario, skel, proxy_vars, target_device, agent_reg, agent_last, main, central_client,
                    sub_left, connect_result, attempted, fake_server, forward_tasks,
                    notify_tasks, tick >>

\* A variant of MainLoop that reconnects whether a target was given or not.
MainLoopReconnectAlways ==
    /\ main = "sleep"
    /\ IF central_client = "None" \/ ~central_connected
       THEN BeginConnect
       ELSE UNCHANGED << main, fake_conn >>
    /\ UNCHANGED << fake_server, tick >>
    /\ UNCHANGED << program, scenario, skel, proxy_vars, target_device, agent_reg, agent_last, forward_tasks, notify_tasks >>

\* One turn of the loop of main(), after its sleep: with a target, reconnect
\* if the link is down; with none, push the test notifications.
MainLoop ==
    /\ main = "sleep"
    /\ IF target_device
       THEN /\ IF central_client = "None" \/ ~central_connected
               THEN BeginConnect
               ELSE UNCHANGED << main, fake_conn >>
            /\ UNCHANGED << fake_server, tick >>
       ELSE /\ Len(push_calls) < NotifyBudget
            /\ LET st1 == NotifyCharacteristic(ServerState, "fea1", "07000000000000000000")
                   st2 == IF tick = 0 THEN NotifyCharacteristic(st1, "33f2", "1c") ELSE st1
               IN SetServer(st2)
            /\ tick' = (tick + 1) % 5
            /\ UNCHANGED << main, fake_conn, connect_events, last_call >>
    /\ UNCHANGED << program, scenario, skel, proxy_vars, target_device, agent_reg, agent_last, forward_tasks, notify_tasks >>

\* main() on KeyboardInterrupt: the central client, if any, is disconnected;
\* nothing is done about the agent, the advertisement or the GATT application.
Teardown ==
    /\ Serving
    /\ main' = "torn_down"
    /\ central_connected' = FALSE
    /\ UNCHANGED << program, scenario, skel, proxy_vars, target_device, agent_reg, agent_last, central_client, target_subs,
                    sub_left, connect_result, attempted, lost_subs, fake_server,
                    forward_tasks, notify_tasks, tick >>

\* `if not self._client_connected and self._on_client_connect:` of ReadValue and
\* StartNotify; every characteristic is built with on_client_connect.
FirstAccess(uuid) ==
    IF ~chars[uuid].client_connected
    THEN /\ chars' = [chars EXCEPT ![uuid].client_connected = TRUE]
         /\ connect_events' = connect_events + 1
    ELSE UNCHANGED << chars, connect_events >>

\* What GattCharacteristic.ReadValue returns: `return self._value`.
ReadValueResult(uuid) == chars[uuid].value

\* GattCharacteristic.ReadValue
ReadValue(uuid) ==
    /\ Serving
    /\ scenario \in {"notify", "server"}
    /\ FirstAccess(uuid)
    /\ UNCHANGED << program, scenario, skel, proxy_vars, target_device, agent_reg, agent_last, main, fake_conn, last_call,
                    push_calls, value_signals, forward_tasks, notify_tasks, tick >>

\* GattCharacteristic.StartNotify
StartNotify(uuid) ==
    /\ Serving
    /\ scenario \in {"notify", "server"}
    /\ chars' = [chars EXCEPT ![uuid].client_connected = TRUE, ![uuid].notifying = TRUE]
    /\ connect_events' = IF chars[uuid].client_connected THEN connect_events
                         ELSE connect_events + 1
    /\ last_call' = [last_call EXCEPT ![uuid] = TRUE]
    /\ UNCHANGED << program, scenario, skel, proxy_vars, target_device, agent_reg, agent_last, main, fake_conn, push_calls,
                    value_signals, forward_tasks, notify_tasks, tick >>

\* GattCharacteristic.StopNotify
StopNotify(uuid) ==
    /\ Serving
    /\ scenario \in {"notify", "server"}
    /\ chars' = [chars EXCEPT ![uuid].notifying = FALSE]
    /\ last_call' = [last_call EXCEPT ![uuid] = FALSE]
    /\ UNCHANGED << program, scenario, skel, proxy_vars, target_device, agent_reg, agent_last, main, fake_conn,
                    connect_events, push_calls, value_signals, forward_tasks,
                    notify_tasks, tick >>

\* A variant of WriteValue that keeps the written bytes as the value of the
\* characteristic.
WriteValueStores(uuid, data) ==
    /\ Serving
    /\ Len(writes) < WriteBudget
    /\ forward_tasks' = IF FakeChar(uuid).on_write
                        THEN CreateTask(forward_tasks,
                                        [id |-> Len(writes) + 1, uuid |-> uuid,
                                         data |-> data])
                        ELSE forward_tasks
    /\ writes' = Append(writes, [NewWrite(uuid, data) EXCEPT !.forwards =
                                     Len(forward_tasks') - Len(forward_tasks)])
    /\ chars' = [chars EXCEPT ![uuid].value = data]
    /\ UNCHANGED << program, scenario, skel, config, conn_vars, emulator_to_periph_q, put_tasks,
                    write_loop, gatt_calls, notify_vars, life_vars, target_device, agent_reg, agent_last,
                    main, fake_conn, connect_events, last_call, push_calls,
                    value_signals, notify_tasks, tick >>

\* GattCharacteristic.WriteValue, and for ffd1 its on_write, _ffd1_written: the
\* write callback, then a task running forward_write is created.
WriteValue(uuid, data) ==
    /\ Serving
    /\ Len(writes) < WriteBudget
    /\ forward_tasks' = IF FakeChar(uuid).on_write
                        THEN CreateTask(forward_tasks,
                                        [id |-> Len(writes) + 1, uuid |-> uuid,
                                         data |-> data])
                        ELSE forward_tasks
    /\ writes' = Append(writes, [NewWrite(uuid, data) EXCEPT !.forwards =
                                     Len(forward_tasks') - Len(forward_tasks)])
    /\ UNCHANGED << program, scenario, skel, config, conn_vars, emulator_to_periph_q, put_tasks,
                    write_loop, gatt_calls, notify_vars, life_vars, target_device, agent_reg, agent_last,
                    main, fake_conn, fake_server, notify_tasks, tick >>

\* A variant of ForwardWrite that keeps the write for a later try when the link
\* is down.
ForwardWriteRetry ==
    /\ forward_tasks # << >>
    /\ IF central_client = "None" \/ ~central_connected
       THEN /\ forward_tasks' = Append(Tail(forward_tasks), Head(forward_tasks))
            /\ gatt_calls' = gatt_calls
            /\ writes' = [writes EXCEPT ![Head(forward_tasks).id].dropped = TRUE]
       ELSE /\ forward_tasks' = Tail(forward_tasks)
            /\ gatt_calls' = Append(gatt_calls,
                                    [id |-> Head(forward_tasks).id,
                                     uuid |-> Head(forward_tasks).uuid,
                                     data |-> Head(forward_tasks).data,
                                     response |-> FALSE, returned |-> FALSE,
                                     raised |-> FALSE])
            /\ writes' = writes
    /\ UNCHANGED << program, scenario, skel, config, conn_vars, emulator_to_periph_q, put_tasks,
                    write_loop, notify_vars, life_vars, target_device, agent_reg, agent_last, main,
                    fake_conn, fake_server, notify_tasks, tick >>

\* forward_write up to the await of write_gatt_char; with no connected client
\* the write is logged and dropped.
ForwardWrite ==
    /\ forward_tasks # << >>
    /\ forward_tasks' = Tail(forward_tasks)
    /\ IF central_client = "None" \/ ~central_connected
       THEN /\ gatt_calls' = gatt_calls
            /\ writes' = [writes EXCEPT ![Head(forward_tasks).id].dropped = TRUE]
       ELSE /\ gatt_calls' = Append(gatt_calls,
                                    [id |-> Head(forward_tasks).id,
                                     uuid |-> Head(forward_tasks).uuid,
                                     data |-> Head(forward_tasks).data,
                                     response |-> FALSE, returned |-> FALSE,
                                     raised |-> FALSE])
            /\ writes' = writes
    /\ UNCHANGED << program, scenario, skel, config, conn_vars, emulator_to_periph_q, put_tasks,
                    write_loop, notify_vars, life_vars, target_device, agent_reg, agent_last, main,
                    fake_conn, fake_server, notify_tasks, tick >>

\* A write_gatt_char awaited by a forward_write task returned or raised (logged).
ForwardWriteReturn(k, ok) ==
    /\ program = "fake"
    /\ k \in 1..Len(gatt_calls)
    /\ ~gatt_calls[k].returned
    /\ gatt_calls' = [gatt_calls EXCEPT ![k].returned = TRUE, ![k].raised = ~ok]
    /\ UNCHANGED << program, scenario, skel, config, conn_vars, emulator_to_periph_q, put_tasks,
                    write_loop, writes, notify_vars, life_vars, fake_vars >>

\* The handler made by make_handler, called by bleak with a notification of a
\* subscribed characteristic: forward_notification is scheduled on the loop.
TargetNotification(uuid, data) ==
    /\ Serving
    /\ central_connected
    /\ uuid \in target_subs
    /\ Len(notifs) < NotifyBudget
    /\ notifs' = Append(notifs, [uuid |-> uuid, data |-> data, hook |-> NoHook,
                                 hook_calls |-> 0, queued |-> Len(notify_tasks)])
    /\ notify_tasks' = CreateTask(notify_tasks,
                                  [id |-> Len(notifs) + 1, uuid |-> uuid, data |-> data])
    /\ UNCHANGED << program, scenario, skel, config, conn_vars, write_vars, periph_to_emulator_q,
                    forward_loop, forward_acct, emulator_calls, life_vars, target_device, agent_reg, agent_last, main,
                    fake_conn, fake_server, forward_tasks, tick >>

\* forward_notification runs (it never suspends).
ForwardNotification ==
    /\ notify_tasks # << >>
    /\ SetServer(ForwardTo(FakeCharacteristics, ServerState, Head(notify_tasks), FALSE))
    /\ notify_tasks' = Tail(notify_tasks)
    /\ UNCHANGED << program, scenario, skel, proxy_vars, target_device, agent_reg, agent_last, main, fake_conn,
                    connect_events, last_call, forward_tasks, tick >>

\* main(): start(), connect_to_target, the loop and the teardown.
FakeLife ==
    \/ \E ok \in BOOLEAN, reg \in RegOutcomes : FakeStart(ok, reg)
    \/ \E ok \in BOOLEAN : FakeConnect(ok)
    \/ \E ok \in BOOLEAN : FakeSubscribe(ok)
    \/ LinkLost
    \/ MainLoop
    \/ Teardown

\* The write path: phone -> WriteValue -> forward_write task -> target.
FakeWrite ==
    \/ \E uuid \in FakeUuids, data \in Bytes : WriteValue(uuid, data)
    \/ ForwardWrite
    \/ \E k \in 1..MaxWrites, ok \in BOOLEAN : ForwardWriteReturn(k, ok)

\* A variant of RequestConfirmation that accepts the passkey 0 only and raises
\* for any other.
RequestConfirmationZeroOnly(device, passkey) ==
    /\ Serving
    /\ scenario = "server"
    /\ device \in Devices
    /\ agent_last' = [method |-> "RequestConfirmation", passkey |-> passkey,
                      result |-> IF passkey = 0 THEN "returned" ELSE "raised"]
    /\ UNCHANGED << program, scenario, skel, proxy_vars, target_device, agent_reg, main, fake_conn,
                    fake_server, forward_tasks, notify_tasks, tick >>

\* PairingAgent.RequestConfirmation(device, passkey): it logs and returns.
RequestConfirmation(device, passkey) ==
    /\ Serving
    /\ scenario = "server"
    /\ device \in Devices
    /\ agent_last' = [method |-> "RequestConfirmation", passkey |-> passkey,
                      result |-> "returned"]
    /\ UNCHANGED << program, scenario, skel, proxy_vars, target_device, agent_reg, main, fake_conn,
                    fake_server, forward_tasks, notify_tasks, tick >>

\* PairingAgent.RequestAuthorization(device): it logs and returns.
RequestAuthorization(device) ==
    /\ Serving
    /\ scenario = "server"
    /\ device \in Devices
    /\ agent_last' = [method |-> "RequestAuthorization", passkey |-> 0,
                      result |-> "returned"]
    /\ UNCHANGED << program, scenario, skel, proxy_vars, target_device, agent_reg, main, fake_conn,
                    fake_server, forward_tasks, notify_tasks, tick >>

\* The pairing callbacks of BlueZ on the agent.
FakeAgent ==
    \/ \E device \in Devices, passkey \in Passkeys : RequestConfirmation(device, passkey)
    \/ \E device \in Devices : RequestAuthorization(device)

\* The notify path: target -> handler -> forward_notification -> push_notify,
\* and the phone's subscriptions.
FakeNotify ==
    \/ \E uuid \in FakeUuids : ReadValue(uuid)
    \/ \E uuid \in FakeUuids : StartNotify(uuid)
    \/ \E uuid \in FakeUuids : StopNotify(uuid)
    \/ \E n \in Notifications : TargetNotification(n[1], n[2])
    \/ ForwardNotification

\* start(), stop() and the first step of each task.
ProxyLife ==
    \/ Start
    \/ ConnectOk
    \/ ConnectFail
    \/ \E ok \in BOOLEAN : DiscoverFail(ok)
    \/ \E outcome \in {"true", "false", "raise"} : StartEmulator(outcome)
    \/ WriteLoopStart
    \/ ForwardLoopStart
    \/ EmulatorLoopStep
    \/ Stop
    \/ \E ok \in BOOLEAN : StopEmulator(ok)
    \/ \E ok \in BOOLEAN : StopDisconnect(ok)

\* The subscription loop of _connect_peripheral.
ProxySubscribe ==
    \E uuid \in DiscoveredNotifiable, ok \in BOOLEAN : Subscribe(uuid, ok)

\* The write path: central -> emulator -> queue -> write loop -> peripheral.
ProxyWrite ==
    \/ \E uuid \in WriteUuids, data \in Bytes : OnEmulatorWrite(uuid, data)
    \/ WriteToPeripheral
    \/ \E outcome \in HookOutcomes \cup {NoHook} : WriteLoopGet(outcome)
    \/ \E ok \in BOOLEAN : WriteReturn(ok)

\* The notify path: peripheral -> queue -> forward loop -> emulator.
ProxyNotify ==
    \/ \E n \in Notifications, outcome \in HookOutcomes \cup {NoHook} :
            OnPeripheralNotification(n[1], n[2], outcome)
    \/ ForwardLoopGet
    \/ \E ok \in BOOLEAN : ForwardReturn(ok)

----------------------------------------------------------------------------
\* The skeleton MITMProxy (src/src/mitm_proxy.py)

\* The state after MITMProxy(config): nothing connected, both queues empty. The
\* fields: address (config.peripheral_address is given), phase (of start() and
\* stop()), running (_running), connected (the client's link), q
\* (_emulator_to_periph_q, its items by number), puts (the items put so far),
\* getters (the tasks waiting in q.get(), first waiter first), wl and el (the
\* positions of _periph_write_loop and _emulator_forward_loop), and two
\* histories: gatt (the items given to write_gatt_char) and logged (the items
\* dequeued by _emulator_forward_loop).
SkelNew(address) ==
    [address |-> address, phase |-> "new", running |-> FALSE, connected |-> FALSE,
     q |-> << >>, puts |-> 0, getters |-> << >>, wl |-> "none", el |-> "none",
     gatt |-> << >>, logged |-> << >>]

SkelInit ==
    IF program = "skeleton"
    THEN \E address \in BOOLEAN : skel = SkelNew(address)
    ELSE skel = SkelNew(FALSE)

\* The other program's variables stay as constructed.
SkelOnly == UNCHANGED << program, scenario, proxy_vars, fake_vars >>

\* start(): with an address _connect_peripheral runs, whose connect() returns
\* (ok) or raises, and start() with it; once connected the write loop task is
\* created, and at the end of start() the two forwarding loop tasks.
SkelStart(ok) ==
    /\ program = "skeleton"
    /\ skel.phase = "new"
    /\ skel' = IF skel.address /\ ~ok
               THEN [skel EXCEPT !.running = TRUE, !.phase = "failed"]
               ELSE [skel EXCEPT !.running = TRUE, !.phase = "started",
                                 !.connected = skel.address,
                                 !.wl = IF skel.address THEN "created" ELSE "none",
                                 !.el = "created"]
    /\ SkelOnly

\* The tasks created by start() have their first run one right after the
\* other, in the order of their creation: no other code runs between the
\* first run of the write loop and the first run of the emulator loop.
SkelBetweenFirstRuns == skel.el = "created" /\ skel.wl \notin {"none", "created"}

\* asyncio.Queue.put_nowait on _emulator_to_periph_q: the item is queued and
\* the first waiting getter, if there is one, is woken.
SkelPut ==
    /\ skel.phase = "started"
    /\ ~SkelBetweenFirstRuns
    /\ skel.puts < MaxWrites
    /\ LET woken == IF skel.getters = << >> THEN "nobody" ELSE Head(skel.getters)
       IN skel' = [skel EXCEPT !.puts = @ + 1,
                               !.q = Append(@, skel.puts + 1),
                               !.getters = IF @ = << >> THEN @ ELSE Tail(@),
                               !.wl = IF woken = "write" THEN "ready" ELSE @,
                               !.el = IF woken = "emulator" THEN "ready" ELSE @]
    /\ SkelOnly

\* _periph_write_loop runs: from its start (`while self._running`) or woken
\* in q.get(). On an empty queue it waits, behind the getters already there;
\* else it dequeues the first item and awaits write_gatt_char.
SkelWriteLoopRun ==
    /\ skel.wl \in {"created", "ready"}
    /\ skel' = IF skel.wl = "created" /\ ~skel.running
               THEN [skel EXCEPT !.wl = "done"]
               ELSE IF skel.q = << >>
               THEN [skel EXCEPT !.wl = "wait", !.getters = Append(@, "write")]
               ELSE [skel EXCEPT !.wl = "write", !.q = Tail(@),
                                 !.gatt = Append(@, Head(skel.q))]
    /\ SkelOnly

\* write_gatt_char returned or raised (logged): the next turn of the loop,
\* which ends, waits on the empty queue or dequeues the next item at once.
SkelWriteReturn(ok) ==
    /\ skel.wl = "write"
    /\ skel' = IF ~skel.running
               THEN [skel EXCEPT !.wl = "done"]
               ELSE IF skel.q = << >>
               THEN [skel EXCEPT !.wl = "wait", !.getters = Append(@, "write")]
               ELSE [skel EXCEPT !.q = Tail(@), !.gatt = Append(@, Head(skel.q))]
    /\ SkelOnly

\* _emulator_forward_loop runs (the tasks start in the order of their
\* creation, the write loop first): from its start or woken in q.get(). It
\* dequeues and logs every item the queue holds, since nothing suspends it
\* between two items, and then waits in q.get().
SkelEmulatorLoopRun ==
    /\ skel.el \in {"created", "ready"}
    /\ skel.wl # "created"
    /\ skel' = IF skel.el = "created" /\ ~skel.running
               THEN [skel EXCEPT !.el = "done"]
               ELSE [skel EXCEPT !.el = "wait", !.q = << >>,
                                 !.logged = @ \o skel.q,
                                 !.getters = Append(@, "emulator")]
    /\ SkelOnly

\* stop(): _running is cleared, the tasks of self._tasks are cancelled (the
\* emulator loop; the write loop is not among them) and the client is
\* disconnected. A getter cancelled after it was woken passes the wake-up on
\* to the next getter.
SkelStop ==
    /\ skel.phase = "started"
    /\ ~SkelBetweenFirstRuns
    /\ LET rest == SelectSeq(skel.getters, LAMBDA g : g # "emulator")
           pass == skel.el = "ready" /\ skel.q # << >> /\ rest # << >>
       IN skel' = [skel EXCEPT !.running = FALSE, !.phase = "stopped",
                               !.connected = FALSE,
                               !.el = "cancelled",
                               !.getters = IF pass THEN Tail(rest) ELSE rest,
                               !.wl = IF pass THEN "ready" ELSE @]
    /\ SkelOnly

Skeleton ==
    \/ \E ok \in BOOLEAN : SkelStart(ok)
    \/ SkelPut
    \/ SkelWriteLoopRun
    \/ \E ok \in BOOLEAN : SkelWriteReturn(ok)
    \/ SkelEmulatorLoopRun
    \/ SkelStop

----------------------------------------------------------------------------
\* Specifications. A run is a run of one program; the other ones' variables
\* stay as constructed.

Init ==
    /\ program \in {"proxy", "fake", "skeleton"}
    /\ scenario \in {"write", "notify", "server"}
    /\ program = "proxy" => scenario # "server"
    /\ program = "skeleton" => scenario = "write"
    /\ ProxyInit
    /\ FakeInit
    /\ SkelInit
    \* the hook and the subscriptions of the direction that is not driven are
    \* left out
    /\ scenario = "write" => ~config.on_periph_notify /\ ~config.auto_subscribe
    /\ scenario = "notify" => ~config.on_central_write
    /\ program # "fake" => ~target_device
    /\ program # "proxy" => config = [peripheral_address |-> FALSE,
                                     auto_subscribe |-> FALSE,
                                     enable_emulator |-> FALSE,
                                     on_periph_notify |-> FALSE,
                                     on_central_write |-> FALSE]

Next ==
    \/ ProxyLife \/ ProxySubscribe \/ ProxyWrite \/ ProxyNotify
    \/ FakeLife \/ FakeWrite \/ FakeNotify \/ FakeAgent
    \/ Skeleton

Spec == Init /\ [][Next]_vars

\* The proxy relaying in both directions at once, with a target to connect
\* and subscribe to and no hooks, under the fairness its scheduling gives: the
\* awaits of start() return or raise, the event loop runs a task that is
\* ready, and notify_characteristic of the emulator returns or raises.
\* Nothing is assumed of the write path: a write_gatt_char may never return.
LiveInit ==
    /\ program = "proxy"
    /\ scenario = "relay"
    /\ ProxyInit
    /\ FakeInit
    /\ SkelInit
    /\ config.peripheral_address /\ config.auto_subscribe
    /\ ~config.on_periph_notify /\ ~config.on_central_write
    /\ ~target_device

LiveNext == ProxyLife \/ ProxySubscribe \/ ProxyWrite \/ ProxyNotify

LiveFairness ==
    /\ WF_vars(ProxySubscribe)
    /\ WF_vars(\E outcome \in {"true", "false", "raise"} : StartEmulator(outcome))
    /\ WF_vars(ForwardLoopStart)
    /\ WF_vars(ForwardLoopGet)
    /\ WF_vars(\E ok \in BOOLEAN : ForwardReturn(ok))

LiveSpec == LiveInit /\ [][LiveNext]_vars /\ LiveFairness

----------------------------------------------------------------------------
\* Properties

\* The proxy is running with its client connected and the write path is idle:
\* no put is pending, the queue is empty and the write loop waits on it.
WritePathIdle ==
    /\ program = "proxy"
    /\ running /\ periph_client = "client" /\ is_connected
    /\ put_tasks = << >>
    /\ emulator_to_periph_q = << >>
    /\ write_loop.pc = "get"

\* C1 (Scenario A): with the client connected and no on_central_write hook, a
\* central write of bytes b to a writable characteristic leads to exactly one
\* write_gatt_char call on that characteristic, carrying b: never more than
\* one, none with other bytes, and exactly one once the write path is idle.
C1_OneWritePerCentralWrite ==
    (program = "proxy" /\ ~config.on_central_write) =>
        \A i \in 1..Len(writes) :
            writes[i].uuid \in writable_chars =>
                /\ CountId(gatt_calls, i) <= 1
                /\ \A k \in 1..Len(gatt_calls) :
                       gatt_calls[k].id = i =>
                           /\ gatt_calls[k].uuid = writes[i].uuid
                           /\ gatt_calls[k].data = writes[i].data
                /\ WritePathIdle => CountId(gatt_calls, i) = 1

\* C1's case: two writes to writable characteristics, one of them with only
\* the 'write' property, have each been relayed.
C1_Witness ==
    /\ WritePathIdle
    /\ ~config.on_central_write
    /\ Len(writes) = 2 /\ Len(gatt_calls) = 2
    /\ \A i \in 1..2 : writes[i].uuid \in writable_chars
    /\ \E i \in 1..2 : writes[i].uuid = "fff1"

\* C2: every inbound write makes exactly one forward. In the proxy the write
\* either still has its one write_to_peripheral task pending or has been put on
\* the queue once; in the fake every write to the write characteristic made
\* one forward_write task.
C2_OneForwardPerWrite ==
    /\ program = "proxy" =>
           \A i \in 1..Len(writes) :
               writes[i].forwards + CountId(put_tasks, i) = 1
    /\ program = "fake" =>
           \A i \in 1..Len(writes) :
               FakeChar(writes[i].uuid).on_write => writes[i].forwards = 1

\* C2's case: the proxy received two writes and both are on the queue.
C2_Witness ==
    /\ program = "proxy"
    /\ Len(writes) = 2
    /\ Len(emulator_to_periph_q) = 2
    /\ put_tasks = << >>

\* The entries of the call log s for the characteristic uuid that relay a
\* numbered event appear in the order of the events.
InArrivalOrder(s) ==
    \A j, k \in 1..Len(s) :
        (j < k /\ s[j].uuid = s[k].uuid /\ s[j].id # 0 /\ s[k].id # 0)
            => s[j].id < s[k].id

\* C3: notifications of one characteristic are delivered in the order in which
\* they arrived: the proxy's notify_characteristic calls and the fake's
\* push_notify calls are in arrival order.
C3_NotificationsInOrder ==
    /\ InArrivalOrder(emulator_calls)
    /\ InArrivalOrder(push_calls)

\* C3's case: the proxy delivered two notifications of one characteristic that
\* were both waiting on the queue.
C3_Witness ==
    /\ program = "proxy"
    /\ Len(emulator_calls) = 2
    /\ emulator_calls[1].uuid = emulator_calls[2].uuid
    /\ notifs[2].queued = 1

\* C4: writes to one characteristic reach the target one after the other, in
\* the order in which the central made them: a write_gatt_char call follows
\* only calls, for the same characteristic, of earlier writes that have
\* completed.
C4_WritesOneAfterTheOther ==
    \A j, k \in 1..Len(gatt_calls) :
        (j < k /\ gatt_calls[j].uuid = gatt_calls[k].uuid)
            => /\ gatt_calls[j].id < gatt_calls[k].id
               /\ gatt_calls[j].returned

\* The proxy is running with an emulator and the notify path is idle: the
\* queue is empty and the forward loop waits on it.
NotifyPathIdle ==
    /\ program = "proxy"
    /\ running /\ emulator # "None"
    /\ periph_to_emulator_q = << >>
    /\ forward_loop.pc = "get"

\* The entries of the call log s that relay event i of the history carry its
\* characteristic and its bytes.
SameBytes(s, history, i) ==
    \A k \in 1..Len(s) :
        s[k].id = i => s[k].uuid = history[i].uuid /\ s[k].data = history[i].data

\* C5 (Scenario B): with no on_periph_notify hook, a notification of the
\* target with payload b is passed to the server side exactly once, with the
\* bytes b. Proxy: never more than one notify_characteristic call, and exactly
\* one once the notify path is idle. Fake: the notification is a scheduled
\* forward_notification or one push_notify call.
C5_OnePushPerNotification ==
    /\ (program = "proxy" /\ ~config.on_periph_notify) =>
           \A i \in 1..Len(notifs) :
               /\ CountId(emulator_calls, i) <= 1
               /\ SameBytes(emulator_calls, notifs, i)
               /\ NotifyPathIdle => CountId(emulator_calls, i) = 1
    /\ program = "fake" =>
           \A i \in 1..Len(notifs) :
               /\ CountId(push_calls, i) + CountId(notify_tasks, i) = 1
               /\ SameBytes(push_calls, notifs, i)

\* C5's case: the fake pushed a notification of the target on a characteristic
\* that is notifying, and the Value signal went out with the same bytes.
C5_Witness ==
    /\ program = "fake"
    /\ \E k \in 1..Len(push_calls) :
           /\ push_calls[k].id # 0
           /\ push_calls[k].data = notifs[push_calls[k].id].data
           /\ \E v \in 1..Len(value_signals) :
                  value_signals[v].push = k /\ value_signals[v].data = push_calls[k].data

\* What the sink must receive for an item of the history whose hook call had
\* this outcome.
Expected(h) == IF h.hook.kind = "value" THEN h.hook.val ELSE h.data

\* C6 (Scenario C): with an interception hook, the sink receives the value the
\* hook returned when it returned one, and the original bytes when it returned
\* None; the hook is called exactly once for each forwarded item. For
\* notifications the sink is notify_characteristic, for writes write_gatt_char.
C6_HookReplacesPayload ==
    program = "proxy" =>
        /\ \A k \in 1..Len(emulator_calls) :
               LET h == notifs[emulator_calls[k].id] IN
               /\ emulator_calls[k].uuid = h.uuid
               /\ emulator_calls[k].data = Expected(h)
               /\ config.on_periph_notify => h.hook_calls = 1 /\ h.hook # NoHook
        /\ \A k \in 1..Len(gatt_calls) :
               LET h == writes[gatt_calls[k].id] IN
               /\ gatt_calls[k].uuid = h.uuid
               /\ gatt_calls[k].data = Expected(h)
               /\ config.on_central_write => h.hook_calls = 1 /\ h.hook # NoHook

\* C6's case: the on_periph_notify hook returned 1c for a notification with
\* other bytes, and notify_characteristic was called with 1c.
C6_Witness ==
    /\ program = "proxy"
    /\ \E k \in 1..Len(emulator_calls) :
           LET h == notifs[emulator_calls[k].id] IN
           /\ h.hook.kind = "value"
           /\ h.data # h.hook.val
           /\ emulator_calls[k].data = h.hook.val

\* C7: for every sequence of StartNotify, StopNotify and push_notify calls, the
\* notifying flag of a characteristic says whether the last StartNotify or
\* StopNotify call on it was StartNotify, and a push_notify call emits a Value
\* signal, once and with the pushed bytes, exactly when it does.
C7_SignalIffStarted ==
    /\ \A u \in FakeUuids : chars[u].notifying = last_call[u]
    /\ \A k \in 1..Len(push_calls) :
           LET signals == { v \in 1..Len(value_signals) : value_signals[v].push = k }
           IN /\ Cardinality(signals) = IF push_calls[k].after_start THEN 1 ELSE 0
              /\ \A v \in signals :
                     /\ value_signals[v].uuid = push_calls[k].uuid
                     /\ value_signals[v].data = push_calls[k].data

\* C7's case: on one characteristic a push after StartNotify emitted a signal
\* and a later push, after StopNotify, emitted none.
C7_Witness ==
    \E j, k \in 1..Len(push_calls) :
        /\ j < k
        /\ push_calls[j].uuid = push_calls[k].uuid
        /\ push_calls[j].after_start
        /\ ~push_calls[k].after_start
        /\ \E v \in 1..Len(value_signals) : value_signals[v].push = j
        /\ ~last_call[push_calls[k].uuid]

\* C8: a characteristic is notifying only between a StartNotify and the next
\* StopNotify or teardown: never when the last call was not StartNotify, and
\* never once the session is torn down.
C8_NotifyingOnlyWhileSubscribed ==
    \A u \in FakeUuids :
        chars[u].notifying => last_call[u] /\ main # "torn_down"

\* The bound the properties hold the queues to: one less than what the
\* environment can produce, so that a bounded queue would have to drop.
QueueBound == MaxNotifs - 1

\* C9: both forwarding queues are bounded: neither ever holds more than its
\* bound.
C9_QueuesBounded ==
    /\ Len(periph_to_emulator_q) <= QueueBound
    /\ Len(emulator_to_periph_q) <= QueueBound

\* C10: a forward that arrives when its queue is full is dropped, and is never
\* delivered to the sink: every notification that notify_characteristic
\* receives found the queue below its bound.
C10_OverflowNeverDelivered ==
    \A k \in 1..Len(emulator_calls) :
        notifs[emulator_calls[k].id].queued < QueueBound

\* In how many places the forward of write i exists or has been used: as a
\* pending task, as a queue item, or as a write_gatt_char call.
WriteCopies(i) ==
    CountId(put_tasks, i) + CountId(emulator_to_periph_q, i)
        + CountId(forward_tasks, i) + CountId(gatt_calls, i)

\* The same for notification i: queue item, scheduled forward_notification,
\* notify_characteristic call or push_notify call.
NotifCopies(i) ==
    CountId(periph_to_emulator_q, i) + CountId(notify_tasks, i)
        + CountId(emulator_calls, i) + CountId(push_calls, i)

\* C11: delivery is at most once, with no retry: the sink is called at most
\* once for each write and each notification, a forward whose sink call was
\* made (and may have failed) is kept nowhere for a later try, and a phone
\* write that found the link down is dropped for good, whatever the
\* supervisor does afterwards.
C11_AtMostOnceNoRetry ==
    /\ \A i \in 1..Len(writes) :
           /\ WriteCopies(i) <= 1
           /\ writes[i].dropped => WriteCopies(i) = 0
    /\ \A i \in 1..Len(notifs) : NotifCopies(i) <= 1

\* C11's case: a phone write found the link down and was dropped, the
\* supervisor has connected again since, and the write was not sent.
C11_Witness ==
    /\ program = "fake"
    /\ main = "sleep" /\ central_connected /\ connect_result = "ok"
    /\ forward_tasks = << >>
    /\ \E i \in 1..Len(writes) : writes[i].dropped /\ CountId(gatt_calls, i) = 0
    /\ \E k \in 1..Len(gatt_calls) : gatt_calls[k].raised

\* C12: after a link drop, the recovery of the supervisor loop (a
\* connect_to_target call whose connect succeeds) attempts start_notify for
\* every uuid that was subscribed before the drop: while its subscription
\* loop runs each such uuid is attempted or still to come, and when it is
\* over each one is subscribed or has failed, none is left unattempted.
C12_ResubscribeAfterDrop ==
    (program = "fake" /\ connect_result = "ok") =>
        /\ main = "subscribing" => lost_subs \subseteq attempted \cup Range(sub_left)
        /\ main = "sleep" => lost_subs \subseteq attempted

\* C12's case: both notifying characteristics were subscribed when the link
\* dropped; the supervisor connected again, and its subscription loop is over
\* with one of them subscribed and the other failed.
C12_Witness ==
    /\ program = "fake"
    /\ main = "sleep" /\ connect_result = "ok" /\ central_connected
    /\ lost_subs = {"fea1", "33f2"}
    /\ target_subs = {"fea1"}
    /\ attempted = {"fea1", "33f2"}

\* The supervisor loop of the fake's main(): with a target and at a poll tick,
\* a tick makes a connect attempt exactly when the link is down, and an
\* attempt that failed left the loop running.
SupervisorRetries ==
    /\ (program = "fake" /\ target_device /\ main = "sleep") =>
           IF central_connected
           THEN ~ENABLED (MainLoop /\ main' = "connecting")
           ELSE /\ ENABLED (MainLoop /\ main' = "connecting")
                /\ ~ENABLED (MainLoop /\ main' # "connecting")
    /\ (program = "fake" /\ connect_result = "failed") => main \in {"sleep", "torn_down"}

\* C13 as stated: a connect failure on the outbound link is retried for ever,
\* in the supervisor loop of the fake and in the proxy alike: a failed connect
\* never ends the attempts.
C13_ConnectAlwaysRetried ==
    /\ SupervisorRetries
    /\ program = "proxy" => phase # "failed"

\* C13, amended: the supervisor loop of the fake retries for ever (a tick
\* attempts a connect exactly when the link is down, and a failed attempt
\* leaves the loop running), while MITMProxy.start makes one attempt and, when
\* it fails, clears _running, keeps no client, starts no task and raises.
C13_SupervisorRetriesProxyRaises ==
    /\ SupervisorRetries
    /\ (program = "proxy" /\ phase = "failed") =>
           /\ ~running
           /\ periph_client = "None"
           /\ write_loop.pc = "none" /\ forward_loop.pc = "none"
           /\ ~ENABLED ConnectOk

\* C13's case: a connect attempt of the supervisor failed after a link drop,
\* the loop is at its poll tick and the next tick attempts again.
C13_Witness ==
    /\ program = "fake" /\ target_device
    /\ main = "sleep" /\ connect_result = "failed"
    /\ lost_subs # {}
    /\ ENABLED (MainLoop /\ main' = "connecting")

\* A loop task is over: it was never created, it returned, or it was cancelled.
TaskOver(pc) == pc \in {"none", "done", "cancelled"}

\* C14: after stop() has run, every loop task of the proxy is over (the notify
\* forward loop, the emulator forward loop and the peripheral write loop), none
\* is left waiting on a queue, and the emulator and the client were stopped
\* and disconnected. For the write loop only the wait on the queue is
\* excluded: a write loop that has yet to take its first step, or that awaits
\* a write_gatt_char, finds _running cleared and returns by itself.
C14_StopEndsEveryTask ==
    (program = "proxy" /\ phase = "stopped") =>
        /\ TaskOver(forward_loop.pc)
        /\ TaskOver(emulator_loop)
        /\ write_loop.pc # "get"
        /\ emulator = "None"
        /\ stop_log.emulator_stop # "due" /\ stop_log.disconnect # "due"

\* C15: errors of the teardown never block stop(): whether emulator.stop()
\* returns or raises, stop() goes on to the disconnect of the client, and
\* whether that returns or raises, stop() ends: when it has ended every
\* teardown step that was due has been made, and the emulator is dropped.
C15_TeardownErrorsDoNotBlock ==
    program = "proxy" =>
        /\ phase = "stop_disconnect" =>
               stop_log.emulator_stop # "due" /\ stop_log.disconnect = "due"
        /\ phase = "stopped" =>
               /\ stop_log.emulator_stop # "due"
               /\ stop_log.disconnect # "due"
               /\ emulator = "None"
        /\ stop_log.disconnect # "none" => periph_client = "client"

\* C15's case: emulator.stop() raised, the disconnect was made all the same and
\* raised too, and stop() has ended.
C15_Witness ==
    /\ program = "proxy"
    /\ phase = "stopped"
    /\ stop_log.emulator_stop = "raised" /\ stop_log.disconnect = "raised"

\* C16: a hook failure aborts only that single forward: an item for which
\* on_periph_notify or on_central_write raised is never handed to its sink
\* (no notify_characteristic call, no write_gatt_char call is made for it).
C16_HookFailureAbortsForward ==
    program = "proxy" =>
        /\ \A i \in 1..Len(notifs) :
               notifs[i].hook.kind = "raise" => CountId(emulator_calls, i) = 0
        /\ \A i \in 1..Len(writes) :
               writes[i].hook.kind = "raise" => CountId(gatt_calls, i) = 0

\* C17: a call that raises for one item never stops the forwarding. Proxy, as
\* long as the proxy is running (stop() was not called): after a
\* write_gatt_char call raised the write loop is still in its loop, and after
\* a notify_characteristic call raised the forward loop is still in its loop;
\* an item waiting in a queue has its loop alive to take it, and once a path
\* is idle every item enqueued, before or
\* after the failure, was dequeued and led to its call. Fake: every central
\* write that got a forward_write task, once the task has run with the link up,
\* led to its write_gatt_char call, whatever the earlier calls did.
C17_ForwardFailureNeverStopsLoop ==
    /\ program = "proxy" =>
           /\ (running /\ \E k \in 1..Len(gatt_calls) : gatt_calls[k].raised) =>
                  write_loop.pc \in {"get", "write"}
           /\ (running /\ \E k \in 1..Len(emulator_calls) : emulator_calls[k].raised) =>
                  forward_loop.pc \in {"get", "notify"}
           /\ (running /\ periph_client = "client" /\ emulator_to_periph_q # << >>) =>
                  write_loop.pc \in {"created", "get", "write"}
           /\ (phase = "started" /\ periph_to_emulator_q # << >>) =>
                  forward_loop.pc \in {"created", "get", "notify"}
           /\ WritePathIdle =>
                  \A i \in 1..Len(writes) :
                      WriteDecision(writes[i].uuid).call =>
                          /\ CountId(gatt_calls, i) = 1
                          /\ \A k \in 1..Len(gatt_calls) :
                                 gatt_calls[k].id = i => gatt_calls[k].returned
           /\ NotifyPathIdle =>
                  \A i \in 1..Len(notifs) : CountId(emulator_calls, i) = 1
    /\ program = "fake" =>
           \A i \in 1..Len(writes) :
               (writes[i].forwards = 1 /\ ~writes[i].dropped
                    /\ CountId(forward_tasks, i) = 0) =>
                   CountId(gatt_calls, i) = 1

\* C17's case: the write_gatt_char call of the first write raised, and the
\* second write was dequeued, handed to write_gatt_char and returned.
C17_Witness ==
    /\ WritePathIdle
    /\ Len(gatt_calls) = 2
    /\ gatt_calls[1].id = 1 /\ gatt_calls[1].raised
    /\ gatt_calls[2].id = 2 /\ gatt_calls[2].returned /\ ~gatt_calls[2].raised

C19_SubscriptionStatusConsistent ==
    program = "proxy" =>
        LET st == GetSubscriptionStatus
        IN /\ st.total_notifiable = Cardinality(DiscoveredNotifiable)
                                        \/ st.total_notifiable = 0
           /\ st.total_notifiable = Cardinality(notifiable_chars)
           /\ st.successfully_subscribed =
                  Cardinality(notifiable_chars \ (to_subscribe \cup failed_subs))
                  \/ ~config.auto_subscribe
           /\ ~config.auto_subscribe => st.successfully_subscribed = 0
           /\ st.failed = st.total_notifiable - st.successfully_subscribed
           /\ st.failed = Cardinality(st.failed_chars)
           /\ st.successfully_subscribed = Cardinality(st.subscribed_chars)
           /\ st.subscribed_chars \cap st.failed_chars = {}
           /\ st.subscribed_chars \cup st.failed_chars = notifiable_chars
           /\ st.subscribed_chars \subseteq notifiable_chars

\* C19's case: two notifiable characteristics, one subscribed and one failed.
C19_Witness ==
    /\ program = "proxy"
    /\ GetSubscriptionStatus.total_notifiable = 2
    /\ GetSubscriptionStatus.successfully_subscribed = 1
    /\ GetSubscriptionStatus.failed = 1
    /\ failed_subs # {}

\* C21, as stated: the relay started with no target address fails fast: start
\* does not end as started, and no forwarding loop, emulator or GATT server is
\* left running.
C21_NoAddressFailsFast ==
    /\ (program = "proxy" /\ ~config.peripheral_address) =>
           /\ phase # "started"
           /\ forward_loop.pc = "none" /\ emulator_loop = "none"
           /\ emulator \in {"None", "not_started"}
    /\ (program = "fake" /\ ~target_device) => ~Serving

\* C21, amended: the relay started with no target address does not fail. Proxy:
\* start() never raises and never tries to connect, there is no client and no
\* write loop, no write_gatt_char call is ever made, and when start() is over
\* the forward loop and the emulator loop exist. Fake: main() never calls
\* client.connect(), there is no central client, and a central write whose
\* forward_write task has run was dropped.
C21_NoAddressStartsWithoutTarget ==
    /\ (program = "proxy" /\ ~config.peripheral_address) =>
           /\ phase \notin {"connecting", "subscribing", "failed"}
           /\ periph_client = "None"
           /\ write_loop.pc = "none"
           /\ gatt_calls = << >>
           /\ phase = "started" =>
                  running /\ forward_loop.pc # "none" /\ emulator_loop # "none"
    /\ (program = "fake" /\ ~target_device) =>
           /\ main \notin {"connecting", "subscribing"}
           /\ central_client = "None"
           /\ connect_result = "none"
           /\ gatt_calls = << >>
           /\ \A i \in 1..Len(writes) :
                  (writes[i].forwards = 1 /\ CountId(forward_tasks, i) = 0) =>
                      writes[i].dropped

\* C21's case: the proxy with no peripheral address is started, its emulator
\* serves, its forward loop waits on its queue, and a central write sits in the
\* queue that no write loop reads.
C21_Witness ==
    /\ program = "proxy"
    /\ ~config.peripheral_address
    /\ phase = "started" /\ running
    /\ emulator = "started"
    /\ forward_loop.pc = "get"
    /\ Len(emulator_to_periph_q) = 1

\* C22: WriteValue on a characteristic of the server whose flags hold no write
\* capability fails with NotWritable, and no forward_write task is made for it.
C22_WriteValueNotWritable ==
    program = "fake" =>
        \A i \in 1..Len(writes) :
            ~IsWritable(FakeChar(writes[i].uuid).flags) =>
                /\ writes[i].result = "NotWritable"
                /\ writes[i].forwards = 0
                /\ WriteCopies(i) = 0

C24_WriteTypeSelection ==
    program = "proxy" =>
        \A k \in 1..Len(gatt_calls) :
            LET p == LookupProperties(gatt_calls[k].uuid).properties IN
            /\ "write-without-response" \in p => ~gatt_calls[k].response
            /\ gatt_calls[k].response <=>
                   ("write" \in p /\ "write-without-response" \notin p)

\* C24's case: a write to ffd1 (write and write-without-response) went out
\* unacknowledged and a write to fff1 (write only) acknowledged.
C24_Witness ==
    /\ program = "proxy"
    /\ \E k \in 1..Len(gatt_calls) :
           gatt_calls[k].uuid = "ffd1" /\ ~gatt_calls[k].response
    /\ \E k \in 1..Len(gatt_calls) :
           gatt_calls[k].uuid = "fff1" /\ gatt_calls[k].response

\* C25: the 'central connected' event is raised at most once in a session,
\* whatever ReadValue and StartNotify calls are made, on whichever
\* characteristics.
C25_ConnectedEventOnce ==
    program = "fake" => connect_events <= 1

\* The bytes of the most recent push_notify call on the characteristic uuid,
\* or its configured initial value when there was none.
LastPushed(uuid) ==
    LET ks == { k \in 1..Len(push_calls) : push_calls[k].uuid = uuid } IN
    IF ks = {} THEN FakeChar(uuid).initial_value
    ELSE push_calls[CHOOSE k \in ks : \A j \in ks : j <= k].data

\* C26: push_notify(C, b) sets the value of C to b whether or not C is
\* notifying: in every state a ReadValue on C returns the bytes of the most
\* recent push_notify on C, or the initial value of C if there was none.
C26_ReadReturnsLastPush ==
    program = "fake" => \A u \in FakeUuids : ReadValueResult(u) = LastPushed(u)

\* C26's case: fea1 was read by the phone and never subscribed to, a
\* push_notify on it carried bytes other than its initial value and emitted no
\* signal, and a read now returns those bytes.
C26_Witness ==
    /\ program = "fake"
    /\ chars["fea1"].client_connected /\ ~chars["fea1"].notifying
    /\ ~last_call["fea1"]
    /\ value_signals = << >>
    /\ Len(push_calls) = 1
    /\ push_calls[1].uuid = "fea1"
    /\ push_calls[1].data # FakeChar("fea1").initial_value
    /\ ReadValueResult("fea1") = push_calls[1].data

\* C27: ReadValue and WriteValue are independent of the notify state machine.
\* No ReadValue and no WriteValue step changes the notifying flag or the value
\* of any characteristic; a WriteValue step changes nothing of the server's
\* characteristics at all and emits no signal; and a WriteValue returns
\* normally and creates its forward_write task exactly when the characteristic
\* has a write callback, whatever the notify state is.
C27_ReadWriteIndependentOfNotify ==
    /\ [][ /\ (\E u \in FakeUuids : ReadValue(u)) =>
                  /\ \A c \in FakeUuids :
                         /\ chars'[c].notifying = chars[c].notifying
                         /\ chars'[c].value = chars[c].value
                  /\ UNCHANGED << last_call, push_calls, value_signals >>
           /\ (\E u \in FakeUuids, d \in Bytes : WriteValue(u, d)) =>
                  UNCHANGED << chars, connect_events, last_call, push_calls,
                               value_signals >>
         ]_vars
    /\ [](program = "fake" =>
              \A i \in 1..Len(writes) :
                  /\ writes[i].result = "returned"
                  /\ writes[i].forwards = IF FakeChar(writes[i].uuid).on_write
                                          THEN 1 ELSE 0)

\* C27's case: fea1 is notifying and ffd1 is not, each was read or subscribed
\* to, and a WriteValue on ffd1 has been served.
C27_Witness ==
    /\ program = "fake"
    /\ scenario = "server"
    /\ chars["fea1"].notifying /\ chars["fea1"].client_connected
    /\ ~chars["ffd1"].notifying /\ chars["ffd1"].client_connected
    /\ Len(writes) = 1
    /\ writes[1].uuid = "ffd1" /\ writes[1].forwards = 1
    /\ \A c \in FakeUuids : chars[c].value = FakeChar(c).initial_value

\* C28: _discover_services is idempotent: once it has run, a second run with
\* the same target leaves the service map, the notifiable set and the writable
\* set as they are, and what the first run gave is what a run from the empty
\* state gives.
C28_DiscoverIdempotent ==
    (program = "proxy" /\ periph_client = "client") =>
        /\ DiscoverServices(Discovered) = Discovered
        /\ Discovered = DiscoverServices([services |-> [keys |-> {}, chars |-> {}],
                                          notifiable |-> {}, writable |-> {}])

\* C28's case: discovery has run: both services are in the map with their five
\* characteristics, two of them notifiable and two writable.
C28_Witness ==
    /\ program = "proxy"
    /\ periph_client = "client"
    /\ services.keys = {1, 2}
    /\ Cardinality(services.chars) = 5
    /\ notifiable_chars = {"fea1", "33f2"}
    /\ writable_chars = {"ffd1", "fff1"}

\* C29: stop() is idempotent: when a second stop() call, made after a stop()
\* that ended, has ended too, it has made every teardown step that was due
\* without raising, the proxy is as the first call left it, and that is: not
\* running, no emulator, and no task alive (none waiting on a queue).
C29_SecondStopSameState ==
    (program = "proxy" /\ phase = "stopped" /\ stop_log.calls = 2) =>
        /\ stop_log.emulator_stop # "due" /\ stop_log.disconnect # "due"
        /\ StopState(running, emulator, forward_loop.pc, emulator_loop) = stop_log.first
        /\ ~running
        /\ emulator = "None"
        /\ TaskOver(forward_loop.pc) /\ TaskOver(emulator_loop)
        /\ write_loop.pc # "get"

\* C30 (Scenario D): a RequestConfirmation callback, for any device and
\* passkey, and a RequestAuthorization callback, for any device, returns
\* without raising, in whatever state the relay is: the last callback made
\* never ended otherwise.
C30_AgentAutoAccepts ==
    program = "fake" => agent_last.result \in {"none", "returned"}

\* C30's case: RequestConfirmation was called with a passkey other than 0 and
\* returned, while the link to the target is down after a failed connect and
\* a characteristic is notifying.
C30_Witness ==
    /\ program = "fake"
    /\ agent_last.method = "RequestConfirmation"
    /\ agent_last.passkey = 123456
    /\ agent_last.result = "returned"
    /\ connect_result = "failed"
    /\ chars["fea1"].notifying

\* C32: the life of the pairing agent: while the relay serves, its one agent
\* is registered as the default agent, and once the session is torn down (or
\* start() has failed and main() has returned) no agent is left registered.
C32_AgentLifecycle ==
    program = "fake" =>
        /\ Serving => agent_reg = "registered"
        /\ main \in {"torn_down", "exited"} => agent_reg # "registered"

\* C33: with no target configured the fake forwards nothing and serves on. No
\* outbound connect is ever attempted (main() never leaves for
\* connect_to_target, no central client is made), no write of the phone ends
\* in a write_gatt_char call (a forward_write task that ran dropped its
\* write), and as long as main() runs the server takes every read, every
\* notify toggle and every write of the phone, each write returning normally.
C33_NoTargetNoForwarding ==
    (program = "fake" /\ ~target_device) =>
        /\ main \notin {"connecting", "subscribing"}
        /\ central_client = "None" /\ ~central_connected
        /\ connect_result = "none" /\ attempted = {} /\ target_subs = {}
        /\ gatt_calls = << >>
        /\ \A i \in 1..Len(writes) :
               /\ writes[i].result = "returned"
               /\ (writes[i].forwards = 1 /\ CountId(forward_tasks, i) = 0) =>
                      writes[i].dropped
        /\ main \in {"new", "sleep", "torn_down", "exited"}
        /\ main = "sleep" =>
               /\ scenario \in {"notify", "server"} =>
                      \A u \in FakeUuids :
                          /\ ENABLED ReadValue(u)
                          /\ ENABLED StartNotify(u)
                          /\ ENABLED StopNotify(u)
               /\ Len(writes) < WriteBudget =>
                      \A u \in FakeUuids, d \in Bytes : ENABLED WriteValue(u, d)

\* C33's case: no target; the phone has read ffd1, subscribed to fea1 and
\* written ffd1, the forward_write task of the write has run and dropped it,
\* and main() is still in its loop.
C33_Witness ==
    /\ program = "fake" /\ ~target_device
    /\ main = "sleep"
    /\ chars["ffd1"].client_connected /\ ~chars["ffd1"].notifying
    /\ chars["fea1"].notifying
    /\ Len(writes) = 1 /\ writes[1].uuid = "ffd1"
    /\ writes[1].forwards = 1 /\ writes[1].dropped
    /\ forward_tasks = << >>
    /\ gatt_calls = << >>

\* The items the forward loop has dequeued from the peripheral-to-emulator
\* queue: every notification was put once, and the loop is its only consumer.
Dequeued == Len(notifs) - Len(periph_to_emulator_q)

\* C37: the queue accounting of the notify forwarding loop is balanced: the
\* task_done() calls never outnumber the items dequeued, cancellation on an
\* empty queue included, and the loop never ends by an error of task_done.
C37_TaskDoneBalanced ==
    program = "proxy" =>
        /\ forward_acct.calls <= Dequeued
        /\ ~forward_acct.raised
        /\ forward_acct.end # "error"

\* C36: the monitoring-only fallback: whenever the emulator fails to start,
\* start() leaves _emulator None, and no notification is passed to an emulator
\* that did not start: once start() is over there is no emulator object whose
\* start() failed, and the forward loop never awaits notify_characteristic on
\* one.
C36_MonitoringOnlyFallback ==
    program = "proxy" =>
        /\ emulator # "not_started"
        /\ forward_loop.pc = "notify" => emulator = "started"

C38_SkeletonWritesEveryItemOnce ==
    (program = "skeleton" /\ skel.connected) =>
        \A i \in 1..skel.puts :
            /\ Cardinality({ k \in 1..Len(skel.gatt) : skel.gatt[k] = i }) <= 1
            /\ i \notin Range(skel.q) => i \in Range(skel.gatt)

\* C39: write-path progress: while the proxy is running, in every
\* configuration in which start() succeeded, the one without a peripheral
\* address included, the write-to-target queue never holds an item without a
\* consumer: a write loop task exists that has not ended, to dequeue the item
\* and hand it to write_gatt_char or reject it.
C39_WriteQueueHasConsumer ==
    (program = "proxy" /\ phase = "started" /\ running) =>
        (emulator_to_periph_q # << >> =>
             write_loop.pc \in {"created", "get", "write"})

\* Notification i is on the peripheral-to-emulator queue.
InNotifyQueue(i) == \E k \in 1..Len(periph_to_emulator_q) : periph_to_emulator_q[k].id = i

\* Notification i has left the queue and was handed to the emulator by one
\* notify_characteristic call, or, with no emulator, was logged.
NotifHanded(i) ==
    /\ i <= Len(notifs)
    /\ ~InNotifyQueue(i)
    /\ emulator # "None" => CountId(emulator_calls, i) = 1

\* C34: no deadlock and no silent loss on the notify path. While the proxy is
\* running, every notification that _on_peripheral_notification has put on the
\* queue is eventually dequeued by the forward loop and handed to the emulator
\* (or logged, with no emulator), whatever the write-to-target queue holds and
\* also when a write_gatt_char never returns or raises; and at no time has a
\* notification left the queue without having been handed on.
C34_NotifyPathProgress ==
    /\ \A i \in 1..MaxNotifs :
           (running /\ InNotifyQueue(i)) ~> (~running \/ NotifHanded(i))
    /\ [](\A i \in 1..Len(notifs) : InNotifyQueue(i) \/ NotifHanded(i))

\* C34's case: a write_gatt_char has not returned and another write waits on
\* the write-to-target queue, while a notification enqueued after the write
\* was made has been dequeued and handed to the emulator.
C34_Witness ==
    /\ program = "proxy" /\ running
    /\ write_loop.pc = "write"
    /\ Len(gatt_calls) = 1 /\ ~gatt_calls[1].returned
    /\ Len(notifs) >= 1
    /\ NotifHanded(1) /\ emulator = "started"
    /\ forward_loop.pc = "get"

====
